---------------------------- MODULE Spec2Model ----------------------------
(***************************************************************************)
(* Verification model of the TMJ registration backend:                     *)
(*   - GaussNewtonOptimizer (Gauss-Newton / Levenberg-Marquardt optimizer) *)
(*   - MINDMetric (MIND descriptor metric: initialisation and caching)     *)
(*                                                                         *)
(* Real numbers are fixed-point integers: the real x is the integer x*Den. *)
(* The optimizer is modelled for one parameter (NumParams = 1); parameter  *)
(* vectors are sequences of that length.  The LM damping factor spans 16   *)
(* orders of magnitude and is kept exactly, as base * 2^exp.               *)
(***************************************************************************)
EXTENDS Integers, Sequences, FiniteSets, TLC

VARIABLES
    pc,        \* position of the control thread in StartOptimization
    cfg,       \* optimizer settings and the callbacks the caller installed
    opt,       \* GaussNewtonOptimizer data members that a run writes
    params,    \* the caller's parameter vector (read by m_GetParameters)
    obs,       \* record of what the last step / run did (observation only)
    mind,      \* MINDMetric data members
    mobs,      \* record of what the last MINDMetric call did
    ev,        \* an initialised MINDMetric under evaluation, and the last result
    cm,        \* ConfigManager: the configuration record and the last load
    smp,       \* MINDMetric sampling members: seed, generator, sample points
    lat,       \* MINDMetric sample geometry: volume size, radius, percentage, points
    par        \* the team of threads of one parallel sample loop

vars == <<pc, cfg, opt, params, obs, mind, mobs, ev, cm, smp, lat, par>>

optVars == <<pc, cfg, opt, params, obs>>
mindVars == <<mind, mobs>>
evalVars == <<ev>>
confVars == <<cm>>
sampVars == <<smp>>
geomVars == <<lat>>
parVars == <<par>>

-----------------------------------------------------------------------------
(* Bounds of the model *)

MaxIterations == 2      \* largest number_of_iterations a run is given
MaxRuns == 2            \* StartOptimization calls on one optimizer object
MaxCalls == 6           \* MINDMetric calls in one behaviour

-----------------------------------------------------------------------------
(* Fixed-point arithmetic *)

Den == 2 * 5            \* fixed-point denominator: 1.0 is Den, so 0.5 and 0.1 are exact
DBL_MAX == 1000000      \* std::numeric_limits<double>::max()
NumParams == 1

Abs(x) == IF x < 0 THEN -x ELSE x
Max(a, b) == IF a >= b THEN a ELSE b
Min(a, b) == IF a <= b THEN a ELSE b

\* division rounding toward zero, as a symmetric stand-in for double division
TDiv(a, b) ==
    IF (a >= 0) = (b > 0) THEN Abs(a) \div Abs(b) ELSE -(Abs(a) \div Abs(b))

Mul(a, b) == TDiv(a * b, Den)
Div(a, b) == TDiv(a * Den, b)

RECURSIVE Pow2(_)
Pow2(k) == IF k <= 0 THEN 1 ELSE 2 * Pow2(k - 1)

RECURSIVE SumSeq(_)
SumSeq(s) == IF s = <<>> THEN 0 ELSE Head(s) + SumSeq(Tail(s))


-----------------------------------------------------------------------------
(* GaussNewtonOptimizer: settings, callbacks and inputs *)

StopConditions ==
    {"MAXIMUM_ITERATIONS", "STEP_TOO_SMALL", "GRADIENT_TOO_SMALL",
     "CONVERGED", "SINGULAR_MATRIX"}

MaxLineSearch == 3      \* m_LineSearchMaxIterations given to a run

\* The cost callback is a function of the caller's parameters.
CostShapes == {"bowl", "flat", "ramp"}

CostAt(shape, p) ==
    CASE shape = "bowl" -> Mul(p[1] - 2 * Den, p[1] - 2 * Den)
      [] shape = "flat" -> Den
      [] OTHER          -> 5 * Den - p[1]

\* What Eigen::LDLT reports for a normal matrix that is singular to working
\* precision: the signs it computes are then a matter of rounding.
\* "exact" is the report exact arithmetic gives.
LdltReports ==
    {"exact", "indefinite", "indefinite_twice", "numerical_issue", "non_finite"}

\* What the residual and Jacobian callbacks hand back in one step, and what
\* the factorization of the resulting normal matrix reports.
StepInputs ==
    { [f |-> <<>>,                 J |-> <<>>,                ldlt |-> "exact"],
      [f |-> <<2 * Den>>,          J |-> <<>>,                ldlt |-> "exact"],
      [f |-> <<2 * Den>>,          J |-> << <<Den, Den>> >>,  ldlt |-> "exact"],
      [f |-> <<2 * Den>>,          J |-> << <<Den>> >>,       ldlt |-> "exact"],
      [f |-> <<-(2 * Den)>>,       J |-> << <<Den>> >>,       ldlt |-> "exact"],
      [f |-> <<Den, Den>>,         J |-> << <<Den>>, <<-Den>> >>, ldlt |-> "exact"],
      [f |-> <<Den \div 2, Den \div 2>>, J |-> << <<Den>>, <<Den>> >>,
       ldlt |-> "exact"] }
    \cup { [f |-> <<2 * Den>>, J |-> << <<0>> >>, ldlt |-> report] :
             report \in LdltReports }

\* What the gradient callback hands back.  A zero gradient with a zero
\* tolerance makes the fallback step divide by zero; it is not offered.
GradientInputs == {-Den, 0, Den}

FallbackGradientInputs(tol) == IF tol > 0 THEN GradientInputs ELSE {-Den, Den}

\* Which callbacks the caller installed.
CallbackSets ==
    LET Installed(cost, get, set, residual, jacobian, gradient) ==
            [cost |-> cost, get |-> get, set |-> set, residual |-> residual,
             jacobian |-> jacobian, gradient |-> gradient]
    IN  { Installed(TRUE,  TRUE,  TRUE,  TRUE,  TRUE,  FALSE),
          Installed(TRUE,  TRUE,  TRUE,  TRUE,  TRUE,  TRUE),
          Installed(TRUE,  TRUE,  TRUE,  FALSE, FALSE, TRUE),
          Installed(TRUE,  TRUE,  TRUE,  TRUE,  FALSE, TRUE),
          Installed(TRUE,  TRUE,  TRUE,  FALSE, TRUE,  FALSE),
          Installed(FALSE, TRUE,  TRUE,  TRUE,  TRUE,  TRUE),
          Installed(TRUE,  TRUE,  FALSE, TRUE,  TRUE,  TRUE) }

\* The LM damping factor is base * 2^exp with base 1e-3 ("init", the
\* constructor's value), 1e-10 ("floor") or 1e6 ("ceil").
DampingStarts ==
    { [base |-> "init", exp |-> 0],
      [base |-> "floor", exp |-> 1],
      [base |-> "ceil", exp |-> -1] }

Settings ==
    { [ m_LearningRate |-> Den,
        m_MinimumStepLength |-> ms,
        m_NumberOfIterations |-> n,
        m_RelaxationFactor |-> Den \div 2,
        m_GradientMagnitudeTolerance |-> tol,
        m_ReturnBestParameters |-> rb,
        m_UseLevenbergMarquardt |-> lm,
        m_UseLineSearch |-> ls,
        m_LineSearchMaxIterations |-> MaxLineSearch,
        m_LineSearchShrinkFactor |-> Den \div 2,
        m_Scale |-> Den,
        m_MaxParameterUpdate |-> DBL_MAX,
        m_Observer |-> FALSE,
        m_ObserverIterationInterval |-> 10,
        m_Verbose |-> FALSE,
        callbacks |-> cb,
        costShape |-> shape ] :
      ms \in {1, 6}, n \in 0..MaxIterations, tol \in {0, 1},
      rb \in BOOLEAN, lm \in BOOLEAN, ls \in BOOLEAN,
      cb \in CallbackSets, shape \in CostShapes }

\* settings after SetObserver, SetObserverIterationInterval and SetVerbose
ObservedSettings ==
    { [s EXCEPT !.m_Observer = TRUE, !.m_ObserverIterationInterval = interval,
                !.m_Verbose = verbose] :
      s \in {t \in Settings : /\ t.m_MinimumStepLength = 1
                               /\ t.m_GradientMagnitudeTolerance = 0
                               /\ t.m_UseLevenbergMarquardt
                               /\ ~t.m_UseLineSearch},
      interval \in {1, 2}, verbose \in BOOLEAN }

-----------------------------------------------------------------------------
(* Levenberg-Marquardt damping factor *)

\* a halving without the floor
HalveDampingUnbounded(d) == [d EXCEPT !.exp = d.exp - 1]

\* max(d * 0.5, 1e-10): 1e-3 * 2^k >= 1e-10 iff k >= -23, and
\* 1e6 * 2^k >= 1e-10 iff k >= -53.
HalveDamping(d) ==
    CASE d.base = "init"  -> IF d.exp - 1 >= -23 THEN [d EXCEPT !.exp = d.exp - 1]
                             ELSE [base |-> "floor", exp |-> 0]
      [] d.base = "floor" -> IF d.exp - 1 >= 0 THEN [d EXCEPT !.exp = d.exp - 1]
                             ELSE [base |-> "floor", exp |-> 0]
      [] OTHER            -> IF d.exp - 1 >= -53 THEN [d EXCEPT !.exp = d.exp - 1]
                             ELSE [base |-> "floor", exp |-> 0]

\* min(d * 2.0, 1e6): 1e-3 * 2^k <= 1e6 iff k <= 29, and
\* 1e-10 * 2^k <= 1e6 iff k <= 53.
DoubleDamping(d) ==
    CASE d.base = "init"  -> IF d.exp + 1 <= 29 THEN [d EXCEPT !.exp = d.exp + 1]
                             ELSE [base |-> "ceil", exp |-> 0]
      [] d.base = "floor" -> IF d.exp + 1 <= 53 THEN [d EXCEPT !.exp = d.exp + 1]
                             ELSE [base |-> "ceil", exp |-> 0]
      [] OTHER            -> IF d.exp + 1 <= 0 THEN [d EXCEPT !.exp = d.exp + 1]
                             ELSE [base |-> "ceil", exp |-> 0]

\* The damping factor as a fixed-point number (rounded down).
DampingFix(d) ==
    CASE d.base = "init"  -> IF d.exp >= 0 THEN Pow2(d.exp) \div (1000 \div Den) ELSE 0
      [] d.base = "floor" -> (Pow2(d.exp) \div 100000) \div (100000 \div Den)
      [] OTHER            -> (1000000 * Den) \div Pow2(-d.exp)

-----------------------------------------------------------------------------
(* GaussNewtonOptimizer: the pieces of one step *)

\* for (m_CurrentIteration = 0; m_CurrentIteration < m_NumberOfIterations; ...)
\* a loop test that admits one iteration too many
LoopContinuesInclusive(iteration, numberOfIterations) ==
    iteration <= numberOfIterations

LoopContinues(iteration, numberOfIterations) == iteration < numberOfIterations

\* a break test that overlooks CONVERGED
BreakLoopWithoutConverged(stop) ==
    stop \in {"STEP_TOO_SMALL", "GRADIENT_TOO_SMALL", "SINGULAR_MATRIX"}

\* a break test that overlooks SINGULAR_MATRIX
BreakLoopWithoutSingular(stop) ==
    stop \in {"STEP_TOO_SMALL", "GRADIENT_TOO_SMALL", "CONVERGED"}

BreakLoop(stop) ==
    stop \in {"STEP_TOO_SMALL", "GRADIENT_TOO_SMALL", "SINGULAR_MATRIX", "CONVERGED"}

ResidualsEmpty(f) == f = <<>>

JacobianInvalid(J) == J = <<>> \/ Len(J[1]) # NumParams

\* J(i, 0) = jacobian[i][0] / scale
ScaledJacobian(J, scale) == [i \in 1..Len(J) |-> Div(J[i][1], scale)]

JtJ(Js) == SumSeq([i \in 1..Len(Js) |-> Mul(Js[i], Js[i])])

Jtf(Js, f) == SumSeq([i \in 1..Len(f) |-> Mul(Js[i], f[i])])

\* LDLT of the 1x1 matrix (a): isPositive() unless a < 0
IsPositive(a) == a >= 0

\* ldlt.solve(b) for the 1x1 matrix (a): a zero pivot gives 0
LdltSolve(a, b) == IF a = 0 THEN 0 ELSE Div(b, a)

\* ldlt.info() == Eigen::Success
LdltSuccess(report) == report # "numerical_issue"

\* ldlt.isPositive() at the n-th factorization of a step
LdltIsPositive(a, report, n) ==
    /\ IsPositive(a)
    /\ report # "indefinite_twice"
    /\ (n = 1 => report # "indefinite")

\* u.allFinite()
AllFinite(report) == report # "non_finite"

\* std::max(m_DampingFactor * 10.0, 1e-3)
StrongDamping(lam) == Max(lam * 10, Den \div 1000)

\* the record of a step that made no line search
NoLineSearch == [gradient |-> 0, direction |-> 0, jtf |-> 0, made |-> FALSE]

\* the result of a step that did not reach SolveNormalEquations
NoSolve == [ok |-> TRUE, u |-> 0, factorizations |-> 0, added |-> 0,
            report |-> "none"]

\* a solve that gives up when the first factorization is not positive
SolveNormalEquationsNoRetry(jtj, jtf, damping, useLM, report) ==
    LET lam == DampingFix(damping)
        A == IF useLM
             THEN jtj + Mul(lam, jtj) + (lam \div 1000000)
             ELSE jtj
        ok == /\ LdltSuccess(report) /\ LdltIsPositive(A, report, 1)
              /\ AllFinite(report)
    IN  [ok |-> ok, u |-> IF ok THEN LdltSolve(A, -jtf) ELSE 0,
         factorizations |-> 1, added |-> 0, report |-> report]

\* returns whether it succeeded and u, with the number of factorizations
\* made and the damping the second one added
SolveNormalEquations(jtj, jtf, damping, useLM, report) ==
    LET lam == DampingFix(damping)
        A == IF useLM
             THEN jtj + Mul(lam, jtj) + (lam \div 1000000)
             ELSE jtj
        strongDamping == StrongDamping(lam)
        A2 == jtj + strongDamping
        Failed(n, added) ==
            [ok |-> FALSE, u |-> 0, factorizations |-> n, added |-> added,
             report |-> report]
        Checked(u, n, added) ==
            IF AllFinite(report)
            THEN [ok |-> TRUE, u |-> u, factorizations |-> n, added |-> added,
                  report |-> report]
            ELSE Failed(n, added)
    IN  IF ~LdltSuccess(report) THEN Failed(1, 0)
        ELSE IF LdltIsPositive(A, report, 1)
        THEN Checked(LdltSolve(A, -jtf), 1, 0)
        ELSE IF ~LdltSuccess(report) \/ ~LdltIsPositive(A2, report, 2)
             THEN Failed(2, strongDamping)
             ELSE Checked(LdltSolve(A2, -jtf), 2, strongDamping)

ClampUpdate(update, maxUpdate) ==
    IF Abs(update) > maxUpdate
    THEN (IF update > 0 THEN maxUpdate ELSE -maxUpdate)
    ELSE update

\* sqrt((update / scale)^2)
ComputeScaledUpdateMagnitude(update, scale) == Abs(Div(update, scale))

\* newValue <= initialValue + c * alpha * dirGrad with c = 1e-4; dirGrad is
\* the product of two fixed-point numbers, in units of 1 / Den^2
ArmijoHolds(newValue, initialValue, alpha, dirGrad) ==
    (newValue - initialValue) * Den * Den * 10000 <= alpha * dirGrad

RECURSIVE Backtrack(_, _, _, _, _, _, _)
Backtrack(c, currentParams, direction, initialValue, dirGrad, alpha, iter) ==
    IF iter >= c.m_LineSearchMaxIterations
    THEN [alpha |-> alpha, evals |-> iter]
    ELSE LET newParams == <<currentParams[1] - Mul(alpha, direction)>>
             newValue == CostAt(c.costShape, newParams)
         IN  IF ArmijoHolds(newValue, initialValue, alpha, dirGrad)
             THEN [alpha |-> alpha, evals |-> iter + 1]
             ELSE Backtrack(c, currentParams, direction, initialValue, dirGrad,
                            Mul(alpha, c.m_LineSearchShrinkFactor), iter + 1)

\* the gradient the line search uses: the callback's, or the zero vector
LineSearchGradient(c, g) == IF c.callbacks.gradient THEN g ELSE 0

\* returns [alpha, evals]; the parameters are restored before it returns
LineSearch(c, currentParams, direction, initialValue, g) ==
    LET dirGrad == LineSearchGradient(c, g) * direction
    IN  IF dirGrad >= 0
        THEN [alpha |-> Den \div 10, evals |-> 0]
        ELSE Backtrack(c, currentParams, direction, initialValue, dirGrad, Den, 0)

StepAccepted(newValue, currentValue) == newValue < currentValue

\* a best-value test with the comparison turned round
ImprovesBestInverted(newValue, bestValue) == newValue > bestValue

ImprovesBest(newValue, bestValue) == newValue < bestValue

\* m_SetParameters(currentParams) on a rejected step
\* a rejection that leaves the tentative parameters in place
RejectedParametersKept(currentParams, newParams) == newParams

RejectedParameters(currentParams, newParams) == currentParams

\* m_CurrentValue = m_PreviousValue on a rejected step
RejectedValue(previousValue, newValue) == previousValue

RelaxedStepLength(stepLength, relaxationFactor) == Mul(stepLength, relaxationFactor)

StepLengthTooSmall(stepLength, minimumStepLength) == stepLength < minimumStepLength

\* |prev - cur| / (|prev| + 1e-10) < tol  &&  cur <= prev; with tol a
\* fixed-point number the 1e-10 only turns "<" at equality into "<="
ConvergedTest(previousValue, currentValue, tol) ==
    /\ tol > 0
    /\ Abs(previousValue - currentValue) * Den <= tol * Abs(previousValue)
    /\ currentValue <= previousValue

-----------------------------------------------------------------------------
(* GaussNewtonOptimizer::AdvanceOneStep and AdvanceOneStepGradientDescent  *)
(* as functions of the optimizer members o, the settings c, the caller's   *)
(* parameters p and what the callbacks return.  Each gives the members and *)
(* parameters after the step and names the branch that was taken.          *)

WithConvergence(o, c) ==
    IF ConvergedTest(o.m_PreviousValue, o.m_CurrentValue,
                     c.m_GradientMagnitudeTolerance)
    THEN [o EXCEPT !.m_StopCondition = "CONVERGED"]
    ELSE o

StopEarly(o, p, stop, branch) ==
    [opt |-> [o EXCEPT !.m_StopCondition = stop], params |-> p,
     outcome |-> branch, tried |-> p, alpha |-> 0, evals |-> 0,
     solve |-> NoSolve, ls |-> NoLineSearch]

AcceptStep(o, c, newParams, newValue, stepFactor) ==
    LET o2 == [o EXCEPT
                 !.m_CurrentValue = newValue,
                 !.m_CurrentStepLength = stepFactor,
                 !.m_BestValue =
                     IF ImprovesBest(newValue, o.m_BestValue)
                     THEN newValue ELSE o.m_BestValue,
                 !.m_BestParameters =
                     IF ImprovesBest(newValue, o.m_BestValue)
                     THEN newParams ELSE o.m_BestParameters,
                 !.m_DampingFactor =
                     IF c.m_UseLevenbergMarquardt
                     THEN HalveDamping(o.m_DampingFactor)
                     ELSE o.m_DampingFactor]
    IN  [opt |-> WithConvergence(o2, c), params |-> newParams]

RejectStep(o, c, currentParams, newParams, newValue) ==
    LET relaxed == RelaxedStepLength(o.m_CurrentStepLength, c.m_RelaxationFactor)
        o2 == [o EXCEPT
                 !.m_CurrentValue = RejectedValue(o.m_PreviousValue, newValue),
                 !.m_CurrentStepLength = relaxed,
                 !.m_DampingFactor =
                     IF c.m_UseLevenbergMarquardt
                     THEN DoubleDamping(o.m_DampingFactor)
                     ELSE o.m_DampingFactor,
                 !.m_StopCondition =
                     IF StepLengthTooSmall(relaxed, c.m_MinimumStepLength)
                     THEN "STEP_TOO_SMALL" ELSE o.m_StopCondition]
    IN  [opt |-> WithConvergence(o2, c),
         params |-> RejectedParameters(currentParams, newParams)]

AdvanceOneStep(o, c, p, in, g) ==
    LET currentParams == p
        o1 == [o EXCEPT !.m_PreviousParameters = currentParams,
                        !.m_PreviousValue = o.m_CurrentValue]
    IN
    IF ResidualsEmpty(in.f)
    THEN StopEarly(o1, p, "SINGULAR_MATRIX", "empty_residuals")
    ELSE IF JacobianInvalid(in.J)
    THEN StopEarly(o1, p, "SINGULAR_MATRIX", "invalid_jacobian")
    ELSE
    LET Js == ScaledJacobian(in.J, c.m_Scale)
        sol == SolveNormalEquations(JtJ(Js), Jtf(Js, in.f), o1.m_DampingFactor,
                                    c.m_UseLevenbergMarquardt, in.ldlt)
        solved == [sol EXCEPT !.u = 0]
        searched(update) ==
            IF c.m_UseLineSearch
            THEN [gradient |-> LineSearchGradient(c, g), direction |-> update,
                  jtf |-> Jtf(Js, in.f), made |-> TRUE]
            ELSE NoLineSearch
    IN
    IF ~sol.ok
    THEN [StopEarly(o1, p, "SINGULAR_MATRIX", "solve_failed") EXCEPT !.solve = solved]
    ELSE
    LET update == ClampUpdate(Div(sol.u, c.m_Scale), c.m_MaxParameterUpdate)
        updateMagnitude == ComputeScaledUpdateMagnitude(update, c.m_Scale)
    IN
    IF updateMagnitude < c.m_MinimumStepLength
    THEN [StopEarly(o1, p, "STEP_TOO_SMALL", "update_too_small") EXCEPT !.solve = solved]
    ELSE
    LET ls == IF c.m_UseLineSearch
              THEN LineSearch(c, currentParams, update, o1.m_CurrentValue, g)
              ELSE [alpha |-> Den, evals |-> 0]
        stepFactor == ls.alpha
        newParams == <<currentParams[1] - Mul(stepFactor, update)>>
        newValue == CostAt(c.costShape, newParams)
        accepted == StepAccepted(newValue, o1.m_CurrentValue)
        r == IF accepted
             THEN AcceptStep(o1, c, newParams, newValue, stepFactor)
             ELSE RejectStep(o1, c, currentParams, newParams, newValue)
    IN  [opt |-> r.opt, params |-> r.params,
         outcome |-> IF accepted THEN "accepted" ELSE "rejected",
         tried |-> newParams, alpha |-> stepFactor, evals |-> ls.evals,
         solve |-> solved, ls |-> searched(update)]

AdvanceOneStepGradientDescent(o, c, p, g) ==
    LET currentParams == p
        o1 == [o EXCEPT !.m_PreviousParameters = currentParams,
                        !.m_PreviousValue = o.m_CurrentValue]
        gradientMagnitude == Abs(Div(g, c.m_Scale))
    IN
    IF gradientMagnitude < c.m_GradientMagnitudeTolerance
    THEN StopEarly(o1, p, "GRADIENT_TOO_SMALL", "gradient_too_small")
    ELSE
    LET direction == Div(g, Mul(Mul(c.m_Scale, c.m_Scale), gradientMagnitude))
        newParams == <<currentParams[1] - Mul(o1.m_CurrentStepLength, direction)>>
        newValue == CostAt(c.costShape, newParams)
        accepted == StepAccepted(newValue, o1.m_CurrentValue)
        relaxed == RelaxedStepLength(o1.m_CurrentStepLength, c.m_RelaxationFactor)
        oAcc == [o1 EXCEPT
                   !.m_CurrentValue = newValue,
                   !.m_BestValue =
                       IF ImprovesBest(newValue, o1.m_BestValue)
                       THEN newValue ELSE o1.m_BestValue,
                   !.m_BestParameters =
                       IF ImprovesBest(newValue, o1.m_BestValue)
                       THEN newParams ELSE o1.m_BestParameters]
        oRej == [o1 EXCEPT
                   !.m_CurrentValue = RejectedValue(o1.m_PreviousValue, newValue),
                   !.m_CurrentStepLength = relaxed,
                   !.m_StopCondition =
                       IF StepLengthTooSmall(relaxed, c.m_MinimumStepLength)
                       THEN "STEP_TOO_SMALL" ELSE o1.m_StopCondition]
    IN  [opt |-> IF accepted THEN oAcc ELSE oRej,
         params |-> IF accepted THEN newParams
                    ELSE RejectedParameters(currentParams, newParams),
         outcome |-> IF accepted THEN "accepted" ELSE "rejected",
         tried |-> newParams, alpha |-> o1.m_CurrentStepLength, evals |-> 0,
         solve |-> NoSolve, ls |-> NoLineSearch]

-----------------------------------------------------------------------------
(* GaussNewtonOptimizer::StartOptimization, one action per block of its    *)
(* body: the entry checks and initialisation, one loop iteration (in       *)
(* Gauss-Newton or in fallback mode), and the code after the loop.         *)

OptimizerConstructed(damping) ==
    [ m_StopCondition |-> "MAXIMUM_ITERATIONS",
      m_CurrentIteration |-> 0,
      m_CurrentStepLength |-> Den,
      m_BestValue |-> DBL_MAX,
      m_BestParameters |-> <<>>,
      m_PreviousParameters |-> <<>>,
      m_CurrentValue |-> 0,
      m_PreviousValue |-> DBL_MAX,
      m_DampingFactor |-> damping ]

NoObservation ==
    [ run |-> 0, steps |-> 0, outcome |-> "none", stepSetStop |-> FALSE,
      threw |-> FALSE, initParams |-> <<>>, initCost |-> 0, lowest |-> 0,
      tried |-> <<>>, alpha |-> 0, evals |-> 0, observed |-> <<>>,
      solve |-> NoSolve, ls |-> NoLineSearch ]

\* bool shouldCall, under if (m_Observer)
ShouldCall(c, iteration) ==
    c.m_Observer /\ (c.m_Verbose \/ iteration % c.m_ObserverIterationInterval = 0)

\* the observer's log after m_Observer(m_CurrentIteration, m_CurrentValue,
\* m_CurrentStepLength), when called
Observe(log, called, o) ==
    IF called
    THEN Append(log, <<o.m_CurrentIteration, o.m_CurrentValue, o.m_CurrentStepLength>>)
    ELSE log

UseGaussNewtonResidualOnly(c) == c.callbacks.residual

\* bool useGaussNewton
UseGaussNewton(c) == c.callbacks.residual /\ c.callbacks.jacobian

\* the two checks at the top of StartOptimization
MissingCallbacks(c) ==
    \/ ~c.callbacks.cost \/ ~c.callbacks.get \/ ~c.callbacks.set
    \/ (~UseGaussNewton(c) /\ ~c.callbacks.gradient)

\* an initialisation block that also puts the damping factor back
InitialisedWithDamping(o, c, p) ==
    [o EXCEPT
      !.m_StopCondition = "MAXIMUM_ITERATIONS",
      !.m_CurrentIteration = 0,
      !.m_CurrentStepLength = c.m_LearningRate,
      !.m_PreviousParameters = p,
      !.m_CurrentValue = CostAt(c.costShape, p),
      !.m_PreviousValue = CostAt(c.costShape, p),
      !.m_BestValue = CostAt(c.costShape, p),
      !.m_BestParameters = p,
      !.m_DampingFactor = [base |-> "init", exp |-> 0]]

\* the members after the initialisation block
Initialised(o, c, p) ==
    LET value == CostAt(c.costShape, p)
    IN  [o EXCEPT
          !.m_StopCondition = "MAXIMUM_ITERATIONS",
          !.m_CurrentIteration = 0,
          !.m_CurrentStepLength = c.m_LearningRate,
          !.m_PreviousParameters = p,
          !.m_CurrentValue = value,
          !.m_PreviousValue = value,
          !.m_BestValue = IF value < DBL_MAX THEN value ELSE DBL_MAX,
          !.m_BestParameters = IF value < DBL_MAX THEN p ELSE o.m_BestParameters]

StartThrows ==
    /\ pc \in {"idle", "done"}
    /\ obs.run < MaxRuns
    /\ MissingCallbacks(cfg)
    /\ obs' = [obs EXCEPT !.run = obs.run + 1, !.threw = TRUE]
    /\ UNCHANGED <<pc, cfg, opt, params, mindVars, evalVars, confVars, sampVars, geomVars, parVars>>

StartBegin ==
    /\ pc \in {"idle", "done"}
    /\ obs.run < MaxRuns
    /\ ~MissingCallbacks(cfg)
    /\ opt' = Initialised(opt, cfg, params)
    /\ pc' = IF LoopContinues(0, cfg.m_NumberOfIterations) THEN "loop" ELSE "exit"
    /\ obs' = [NoObservation EXCEPT
                 !.run = obs.run + 1,
                 !.initParams = params,
                 !.initCost = CostAt(cfg.costShape, params),
                 !.lowest = CostAt(cfg.costShape, params)]
    /\ UNCHANGED <<cfg, params, mindVars, evalVars, confVars, sampVars, geomVars, parVars>>

\* the end of one loop iteration: break, or ++m_CurrentIteration and the
\* loop test
AfterStep(r) ==
    /\ params' = r.params
    /\ IF BreakLoop(r.opt.m_StopCondition)
       THEN /\ opt' = r.opt
            /\ pc' = "exit"
       ELSE /\ opt' = [r.opt EXCEPT !.m_CurrentIteration = opt.m_CurrentIteration + 1]
            /\ pc' = IF LoopContinues(opt.m_CurrentIteration + 1,
                                      cfg.m_NumberOfIterations)
                     THEN "loop" ELSE "exit"
    /\ obs' = [obs EXCEPT
                 !.steps = obs.steps + 1,
                 !.outcome = r.outcome,
                 !.stepSetStop =
                     obs.stepSetStop \/ r.opt.m_StopCondition # opt.m_StopCondition,
                 !.lowest = IF r.outcome = "accepted"
                            THEN Min(obs.lowest, r.opt.m_CurrentValue)
                            ELSE obs.lowest,
                 !.tried = r.tried, !.alpha = r.alpha, !.evals = r.evals,
                 !.solve = r.solve, !.ls = r.ls,
                 !.observed = Observe(obs.observed,
                                      ShouldCall(cfg, opt.m_CurrentIteration), opt)]
    /\ UNCHANGED <<cfg, mindVars, evalVars, confVars, sampVars, geomVars, parVars>>

IterateGaussNewton ==
    /\ pc = "loop"
    /\ UseGaussNewton(cfg)
    /\ \E in \in StepInputs :
       \E g \in GradientInputs :
           AfterStep(AdvanceOneStep(opt, cfg, params, in, g))

IterateGradientDescent ==
    /\ pc = "loop"
    /\ ~UseGaussNewton(cfg)
    /\ \E g \in FallbackGradientInputs(cfg.m_GradientMagnitudeTolerance) :
           AfterStep(AdvanceOneStepGradientDescent(opt, cfg, params, g))

ReturnsBest(c, o) == c.m_ReturnBestParameters /\ o.m_BestParameters # <<>>

StartFinish ==
    /\ pc = "exit"
    /\ IF ReturnsBest(cfg, opt)
       THEN /\ params' = opt.m_BestParameters
            /\ opt' = [opt EXCEPT !.m_CurrentValue = opt.m_BestValue]
       ELSE UNCHANGED <<params, opt>>
    /\ obs' = [obs EXCEPT !.observed = Observe(obs.observed, cfg.m_Observer, opt')]
    /\ pc' = "done"
    /\ UNCHANGED <<cfg, mindVars, evalVars, confVars, sampVars, geomVars, parVars>>

OptNext ==
    \/ StartThrows
    \/ StartBegin
    \/ IterateGaussNewton
    \/ IterateGradientDescent
    \/ StartFinish

-----------------------------------------------------------------------------
(* MINDMetric: members, and the values the model gives them *)

NULL == "nullptr"
Images == {"imageA", "imageB"}
Radii == {1, 2}
NeighborhoodTypes == {"SixConnected", "TwentySixConnected"}

\* strings handed to SetNeighborhoodTypeFromString, as character sequences
NeighborhoodStrings ==
    { <<"6", "-", "c">>, <<"2", "6", "-", "c">>,
      <<"T", "w", "e", "n", "t", "y">>, <<"s", "i", "x">> }

\* a MIND feature bundle: the image and radius it was computed from, its
\* number of channels, and the identity of the computed objects
NoBundle == [image |-> NULL, radius |-> 0, k |-> 0, id |-> 0]

NoSamples == [image |-> NULL, fixed |-> NoBundle, count |-> 0]

\* number of lattice points sampled from an image (abstract, positive)
SampleCount(img) == IF img = "imageA" THEN 2 ELSE 3

MindConstructed ==
    [ m_FixedImage |-> NULL,
      m_MovingImage |-> NULL,
      m_Interpolator |-> NULL,
      m_Transform |-> NULL,
      m_JacobianFunction |-> FALSE,
      m_FixedMINDFeatures |-> NoBundle,
      m_MovingMINDFeatures |-> NoBundle,
      m_MovingMINDFeatureGradients |-> NoBundle,
      m_MovingMINDFeatureGradientInterpolators |-> NoBundle,
      m_MovingMINDInterpolators |-> NoBundle,
      m_CachedFixedImage |-> NULL,
      m_CachedMovingImage |-> NULL,
      m_FixedMINDFeaturesValid |-> FALSE,
      m_MovingMINDFeaturesValid |-> FALSE,
      m_MINDRadius |-> 1,
      m_NeighborhoodType |-> "SixConnected",
      m_NeighborhoodOffsets |-> 6,
      m_SamplePoints |-> NoSamples,
      m_NumberOfValidSamples |-> 0,
      m_CurrentValue |-> "0.0",
      nextId |-> 1 ]

\* m_NeighborhoodOffsets.size() after InitializeNeighborhoodOffsets()
InitializeNeighborhoodOffsets(type) == IF type = "SixConnected" THEN 6 ELSE 26

ToLower(ch) ==
    CASE ch = "T" -> "t"
      [] ch = "W" -> "w"
      [] ch = "E" -> "e"
      [] ch = "N" -> "n"
      [] ch = "Y" -> "y"
      [] ch = "S" -> "s"
      [] ch = "I" -> "i"
      [] ch = "X" -> "x"
      [] ch = "C" -> "c"
      [] ch = "A" -> "a"
      [] ch = "B" -> "b"
      [] ch = "D" -> "d"
      [] ch = "G" -> "g"
      [] ch = "M" -> "m"
      [] OTHER    -> ch

RECURSIVE IsPrefix(_, _)
IsPrefix(sub, str) ==
    \/ sub = <<>>
    \/ /\ str # <<>>
       /\ Head(sub) = Head(str)
       /\ IsPrefix(Tail(sub), Tail(str))

\* lower.find(sub) != std::string::npos
RECURSIVE Contains(_, _)
Contains(str, sub) ==
    \/ IsPrefix(sub, str)
    \/ (str # <<>> /\ Contains(Tail(str), sub))

NeighborhoodTypeFromString(typeStr) ==
    LET lower == [i \in 1..Len(typeStr) |-> ToLower(typeStr[i])]
    IN  IF \/ Contains(lower, <<"2", "6">>)
           \/ Contains(lower, <<"t", "w", "e", "n", "t", "y">>)
        THEN "TwentySixConnected"
        ELSE "SixConnected"

\* ComputeMINDFeatures(image, out): one volume per neighbourhood offset
ComputeMINDFeatures(m, image) ==
    [image |-> image, radius |-> m.m_MINDRadius, k |-> m.m_NeighborhoodOffsets,
     id |-> m.nextId]

\* ComputePatchDistances(image, dpImages): dpImages.size() on return
ComputePatchDistances(m, image) == m.m_NeighborhoodOffsets

\* SampleFixedImage(): the samples read m_FixedImage and m_FixedMINDFeatures
SampleFixedImage(m) ==
    [image |-> m.m_FixedImage, fixed |-> m.m_FixedMINDFeatures,
     count |-> SampleCount(m.m_FixedImage)]

-----------------------------------------------------------------------------
(* MINDMetric operations as functions of the members m *)

SetFixedImage(m, img) ==
    [m EXCEPT !.m_FixedImage = img, !.m_FixedMINDFeaturesValid = FALSE]

SetMovingImage(m, img) ==
    [m EXCEPT !.m_MovingImage = img, !.m_Interpolator = img,
              !.m_MovingMINDFeaturesValid = FALSE]

SetNeighborhoodTypeFromString(m, typeStr) ==
    LET type == NeighborhoodTypeFromString(typeStr)
    IN  [m EXCEPT !.m_NeighborhoodType = type,
                  !.m_NeighborhoodOffsets = InitializeNeighborhoodOffsets(type)]

ResetCache(m) ==
    [m EXCEPT !.m_CachedFixedImage = NULL, !.m_CachedMovingImage = NULL,
              !.m_FixedMINDFeaturesValid = FALSE,
              !.m_MovingMINDFeaturesValid = FALSE]

\* entry checks that overlook the transform
InitializeThrowsImagesOnly(m) ==
    m.m_FixedImage = NULL \/ m.m_MovingImage = NULL

\* the two throws at the top of Initialize()
InitializeThrows(m) ==
    \/ m.m_FixedImage = NULL \/ m.m_MovingImage = NULL
    \/ m.m_Transform = NULL

FixedImageChanged(m) == m.m_CachedFixedImage # m.m_FixedImage

MovingImageChanged(m) == m.m_CachedMovingImage # m.m_MovingImage

RecomputesFixed(m) == FixedImageChanged(m) \/ ~m.m_FixedMINDFeaturesValid

RecomputesMoving(m) == MovingImageChanged(m) \/ ~m.m_MovingMINDFeaturesValid

\* ComputeMINDFeatureGradients(): gradients of m_MovingMINDFeatures and
\* fresh interpolators over them
ComputeMINDFeatureGradients(m) ==
    [m EXCEPT !.m_MovingMINDFeatureGradients = m.m_MovingMINDFeatures,
              !.m_MovingMINDFeatureGradientInterpolators = m.m_MovingMINDFeatures]

InitializeFixed(m) ==
    IF RecomputesFixed(m)
    THEN [m EXCEPT !.m_FixedMINDFeatures = ComputeMINDFeatures(m, m.m_FixedImage),
                   !.nextId = m.nextId + 1,
                   !.m_CachedFixedImage = m.m_FixedImage,
                   !.m_FixedMINDFeaturesValid = TRUE]
    ELSE m

InitializeMoving(m) ==
    IF RecomputesMoving(m)
    THEN LET m1 == [m EXCEPT
                      !.m_MovingMINDFeatures = ComputeMINDFeatures(m, m.m_MovingImage),
                      !.nextId = m.nextId + 1]
             m2 == ComputeMINDFeatureGradients(m1)
         IN  [m2 EXCEPT !.m_MovingMINDInterpolators = m2.m_MovingMINDFeatures,
                        !.m_CachedMovingImage = m.m_MovingImage,
                        !.m_MovingMINDFeaturesValid = TRUE]
    ELSE m

\* Initialize() past its checks
Initialize(m) ==
    LET m0 == [m EXCEPT !.m_NeighborhoodOffsets =
                            InitializeNeighborhoodOffsets(m.m_NeighborhoodType)]
        m1 == InitializeMoving(InitializeFixed(m0))
    IN  [m1 EXCEPT !.m_SamplePoints = SampleFixedImage(m1)]

ReinitializeSampling(m) ==
    LET m1 == [m EXCEPT
                 !.m_MovingMINDFeatures = ComputeMINDFeatures(m, m.m_MovingImage),
                 !.nextId = m.nextId + 1]
        m2 == ComputeMINDFeatureGradients(m1)
    IN  [m2 EXCEPT !.m_SamplePoints = SampleFixedImage(m2)]

\* ComputeMINDSSD() / GetResiduals() loop over m_SamplePoints; with no sample
\* they touch neither the transform nor an interpolator
EvaluationDereferencesNull(m) ==
    /\ m.m_SamplePoints.count > 0
    /\ \/ m.m_Transform = NULL
       \/ m.m_MovingMINDInterpolators.k < m.m_MovingMINDFeatures.k

\* GetValue(): what it stores and returns
GetValue(m) ==
    IF m.m_SamplePoints.count = 0
    THEN [m EXCEPT !.m_NumberOfValidSamples = 0, !.m_CurrentValue = "0.0"]
    ELSE [m EXCEPT !.m_NumberOfValidSamples = m.m_SamplePoints.count,
                   !.m_CurrentValue = "ssd"]

\* GetResiduals(), GetResidualsAndJacobian(): the valid-sample count
GetResiduals(m) ==
    [m EXCEPT !.m_NumberOfValidSamples = m.m_SamplePoints.count]

\* GetResidualsAndJacobian() throws unless the Jacobian callback is set
JacobianThrows(m) == ~m.m_JacobianFunction

\* ComputeFiniteDifferenceGradient() indexes the parameter vector that
\* GetTransformParameters() returns, which is empty without a transform
FiniteDifferenceOutOfBounds(m) == ~m.m_JacobianFunction /\ m.m_Transform = NULL

-----------------------------------------------------------------------------
(* MINDMetric: one action per public member function *)

NoInit == [fixed |-> NULL, moving |-> NULL, radius |-> 0, type |-> "none"]

NoCall ==
    [ calls |-> 0, op |-> "none", result |-> "none",
      recomputedFixed |-> FALSE, recomputedMoving |-> FALSE,
      recomputedGradients |-> FALSE,
      initialized |-> FALSE, lastInit |-> NoInit, resetSince |-> FALSE,
      volumes |-> 0 ]

CanCall == mobs.calls < MaxCalls /\ mobs.result # "crashed"

\* the record of a call that returned, threw or crashed
Called(op, result) ==
    [mobs EXCEPT !.calls = mobs.calls + 1, !.op = op, !.result = result,
                 !.recomputedFixed = FALSE, !.recomputedMoving = FALSE,
                 !.recomputedGradients = FALSE, !.volumes = 0]

CallSetFixedImage ==
    /\ CanCall
    /\ \E img \in Images \cup {NULL} : mind' = SetFixedImage(mind, img)
    /\ mobs' = Called("SetFixedImage", "returned")
    /\ UNCHANGED <<optVars, evalVars, confVars, sampVars, geomVars, parVars>>

CallSetMovingImage ==
    /\ CanCall
    /\ \E img \in Images \cup {NULL} : mind' = SetMovingImage(mind, img)
    /\ mobs' = Called("SetMovingImage", "returned")
    /\ UNCHANGED <<optVars, evalVars, confVars, sampVars, geomVars, parVars>>

CallSetTransform ==
    /\ CanCall
    /\ \E t \in {"transform", NULL} : mind' = [mind EXCEPT !.m_Transform = t]
    /\ mobs' = Called("SetTransform", "returned")
    /\ UNCHANGED <<optVars, evalVars, confVars, sampVars, geomVars, parVars>>

CallSetJacobianFunction ==
    /\ CanCall
    /\ mind' = [mind EXCEPT !.m_JacobianFunction = TRUE]
    /\ mobs' = Called("SetJacobianFunction", "returned")
    /\ UNCHANGED <<optVars, evalVars, confVars, sampVars, geomVars, parVars>>

CallSetMINDRadius ==
    /\ CanCall
    /\ \E r \in Radii : mind' = [mind EXCEPT !.m_MINDRadius = r]
    /\ mobs' = Called("SetMINDRadius", "returned")
    /\ UNCHANGED <<optVars, evalVars, confVars, sampVars, geomVars, parVars>>

CallSetNeighborhoodType ==
    /\ CanCall
    /\ \E t \in NeighborhoodTypes : mind' = [mind EXCEPT !.m_NeighborhoodType = t]
    /\ mobs' = Called("SetNeighborhoodType", "returned")
    /\ UNCHANGED <<optVars, evalVars, confVars, sampVars, geomVars, parVars>>

CallSetNeighborhoodTypeFromString ==
    /\ CanCall
    /\ \E str \in NeighborhoodStrings :
           mind' = SetNeighborhoodTypeFromString(mind, str)
    /\ mobs' = Called("SetNeighborhoodTypeFromString", "returned")
    /\ UNCHANGED <<optVars, evalVars, confVars, sampVars, geomVars, parVars>>

CallInitialize ==
    /\ CanCall
    /\ IF InitializeThrows(mind)
       THEN /\ mind' = mind
            /\ mobs' = Called("Initialize", "threw")
       ELSE /\ mind' = Initialize(mind)
            /\ mobs' = [Called("Initialize", "returned") EXCEPT
                          !.recomputedFixed =
                              mind'.m_FixedMINDFeatures.id # mind.m_FixedMINDFeatures.id,
                          !.recomputedMoving =
                              mind'.m_MovingMINDFeatures.id # mind.m_MovingMINDFeatures.id,
                          !.recomputedGradients =
                              mind'.m_MovingMINDFeatureGradients.id
                                  # mind.m_MovingMINDFeatureGradients.id,
                          !.initialized = TRUE,
                          !.lastInit = [fixed |-> mind.m_FixedImage,
                                        moving |-> mind.m_MovingImage,
                                        radius |-> mind.m_MINDRadius,
                                        type |-> mind.m_NeighborhoodType],
                          !.resetSince = FALSE]
    /\ UNCHANGED <<optVars, evalVars, confVars, sampVars, geomVars, parVars>>

CallReinitializeSampling ==
    /\ CanCall
    /\ IF mind.m_MovingImage = NULL \/ mind.m_FixedImage = NULL
       THEN /\ mind' = mind
            /\ mobs' = Called("ReinitializeSampling", "crashed")
       ELSE /\ mind' = ReinitializeSampling(mind)
            /\ mobs' = [Called("ReinitializeSampling", "returned") EXCEPT
                          !.recomputedMoving = TRUE, !.recomputedGradients = TRUE]
    /\ UNCHANGED <<optVars, evalVars, confVars, sampVars, geomVars, parVars>>

CallResetCache ==
    /\ CanCall
    /\ mind' = ResetCache(mind)
    /\ mobs' = [Called("ResetCache", "returned") EXCEPT !.resetSince = TRUE]
    /\ UNCHANGED <<optVars, evalVars, confVars, sampVars, geomVars, parVars>>

CallGetValue ==
    /\ CanCall
    /\ IF EvaluationDereferencesNull(mind)
       THEN /\ mind' = mind
            /\ mobs' = Called("GetValue", "crashed")
       ELSE /\ mind' = GetValue(mind)
            /\ mobs' = Called("GetValue", "returned")
    /\ UNCHANGED <<optVars, evalVars, confVars, sampVars, geomVars, parVars>>

CallGetResiduals ==
    /\ CanCall
    /\ IF EvaluationDereferencesNull(mind)
       THEN /\ mind' = mind
            /\ mobs' = Called("GetResiduals", "crashed")
       ELSE /\ mind' = GetResiduals(mind)
            /\ mobs' = Called("GetResiduals", "returned")
    /\ UNCHANGED <<optVars, evalVars, confVars, sampVars, geomVars, parVars>>

CallGetJacobian ==
    /\ CanCall
    /\ IF JacobianThrows(mind)
       THEN /\ mind' = mind
            /\ mobs' = Called("GetJacobian", "threw")
       ELSE IF EvaluationDereferencesNull(mind)
       THEN /\ mind' = mind
            /\ mobs' = Called("GetJacobian", "crashed")
       ELSE /\ mind' = GetResiduals(mind)
            /\ mobs' = Called("GetJacobian", "returned")
    /\ UNCHANGED <<optVars, evalVars, confVars, sampVars, geomVars, parVars>>

\* GetDerivative(): analytical with the Jacobian callback, else by finite
\* differences (which calls GetValue()); an out-of-bounds write may crash or
\* go unnoticed
CallGetDerivative ==
    /\ CanCall
    /\ IF EvaluationDereferencesNull(mind)
       THEN /\ mind' = mind
            /\ mobs' = Called("GetDerivative", "crashed")
       ELSE /\ mind' = IF mind.m_JacobianFunction THEN mind ELSE GetValue(mind)
            /\ \E r \in IF FiniteDifferenceOutOfBounds(mind)
                        THEN {"crashed", "returned"} ELSE {"returned"} :
                   mobs' = Called("GetDerivative", r)
    /\ UNCHANGED <<optVars, evalVars, confVars, sampVars, geomVars, parVars>>



\* ComputePatchDistances(image, dpImages) on a caller's image
CallComputePatchDistances ==
    /\ CanCall
    /\ \E img \in Images :
           mobs' = [Called("ComputePatchDistances", "returned") EXCEPT
                      !.volumes = ComputePatchDistances(mind, img)]
    /\ mind' = mind
    /\ UNCHANGED <<optVars, evalVars, confVars, sampVars, geomVars, parVars>>

\* ComputeMINDFeatures(image, mindFeatures) on a caller's image
CallComputeMINDFeatures ==
    /\ CanCall
    /\ \E img \in Images :
           mobs' = [Called("ComputeMINDFeatures", "returned") EXCEPT
                      !.volumes = ComputeMINDFeatures(mind, img).k]
    /\ mind' = mind
    /\ UNCHANGED <<optVars, evalVars, confVars, sampVars, geomVars, parVars>>

MindNext ==
    \/ CallComputePatchDistances
    \/ CallComputeMINDFeatures
    \/ CallSetFixedImage
    \/ CallSetMovingImage
    \/ CallSetTransform
    \/ CallSetJacobianFunction
    \/ CallSetMINDRadius
    \/ CallSetNeighborhoodType
    \/ CallSetNeighborhoodTypeFromString
    \/ CallInitialize
    \/ CallReinitializeSampling
    \/ CallResetCache
    \/ CallGetValue
    \/ CallGetResiduals
    \/ CallGetJacobian
    \/ CallGetDerivative

-----------------------------------------------------------------------------
(* MINDMetric evaluation on an initialised metric.  Points lie on one axis, *)
(* the transform is a translation by its single parameter, and a bundle is  *)
(* named by the moving image it was computed from.                          *)

MaxSamples == 2         \* longest sample sequence
MaxEvalCalls == 3       \* calls on the metric under evaluation

Points == 0..3
Channels == {1, 2}
TransformParameters == {-1, 0, 1}
JacobianFunctions == {NULL, "translation", "scaling"}

\* image->GetLargestPossibleRegion(): every volume of a bundle, and of its
\* gradients, has the region of the image it was computed from
BufferOf(image) ==
    IF image = "imageA" THEN [lo |-> 0, hi |-> 2] ELSE [lo |-> 1, hi |-> 3]

\* the moving MIND feature of channel ch at point p, and its spatial gradient
MovingFeatureAt(image, ch, p) ==
    IF image = "imageA" THEN ch + p ELSE ch * p + 3

MovingGradientAt(image, ch, p) == IF image = "imageA" THEN 1 ELSE ch

\* sample.fixedMINDValues, as SampleFixedImage() stores them
FixedFeatureAt(ch, x) == 2 * ch - x

SampleAt(x, numChannels) ==
    [fixedPoint |-> x,
     fixedMINDValues |-> [ch \in 1..numChannels |-> FixedFeatureAt(ch, x)]]

SampleSequences(numChannels) ==
    UNION { [1..n -> {SampleAt(x, numChannels) : x \in Points}] : n \in 0..MaxSamples }

\* m_Transform->TransformPoint(sample.fixedPoint)
TransformPoint(q, x) == x + q

\* interpolator->IsInsideBuffer(point), for an interpolator over a volume of
\* the bundle of image
IsInsideBuffer(image, p) == BufferOf(image).lo <= p /\ p <= BufferOf(image).hi

\* m_JacobianFunction(sample.fixedPoint, transformJacobian): dT/dq
TransformJacobian(jacobianFunction, x) ==
    IF jacobianFunction = "translation" THEN 1 ELSE x

\* the channel loop of ComputeMINDSSD() and GetResiduals(): every channel's
\* interpolator holds the point
AllChannelsValid(e, p) ==
    \A ch \in 1..e.numChannels : IsInsideBuffer(e.m_MovingMINDInterpolators, p)

\* the channel loop of GetResidualsAndJacobian(): the gradient interpolators
\* must hold the point too
AllValid(e, p) ==
    \A ch \in 1..e.numChannels :
        /\ IsInsideBuffer(e.m_MovingMINDInterpolators, p)
        /\ IsInsideBuffer(e.m_MovingMINDFeatureGradientInterpolators, p)

\* sample.fixedMINDValues[ch] - m_MovingMINDInterpolators[ch]->Evaluate(p)
ChannelResidual(e, sample, ch) ==
    sample.fixedMINDValues[ch]
        - MovingFeatureAt(e.m_MovingMINDInterpolators, ch,
                          TransformPoint(e.m_Transform, sample.fixedPoint))

RECURSIVE SampleSSD(_, _, _)
SampleSSD(e, sample, ch) ==
    IF ch > e.numChannels THEN 0
    ELSE ChannelResidual(e, sample, ch) * ChannelResidual(e, sample, ch)
             + SampleSSD(e, sample, ch + 1)

\* the sample loop of ComputeMINDSSD(): [totalSSD, validCount] from sample i on
RECURSIVE AccumulateSSD(_, _)
AccumulateSSD(e, i) ==
    IF i > Len(e.m_SamplePoints) THEN [totalSSD |-> 0, validCount |-> 0]
    ELSE LET sample == e.m_SamplePoints[i]
             rest == AccumulateSSD(e, i + 1)
         IN  IF AllChannelsValid(e, TransformPoint(e.m_Transform, sample.fixedPoint))
             THEN [totalSSD |-> SampleSSD(e, sample, 1) + rest.totalSSD,
                   validCount |-> 1 + rest.validCount]
             ELSE rest

\* a normalisation that forgets the channel count
NormalisedSSDBySamples(totalSSD, validCount, numChannels) ==
    IF validCount > 0 THEN TDiv(totalSSD * Den, validCount) ELSE 0

\* totalSSD / (m_NumberOfValidSamples * numChannels), or 0.0
NormalisedSSD(totalSSD, validCount, numChannels) ==
    IF validCount > 0 THEN TDiv(totalSSD * Den, validCount * numChannels) ELSE 0

\* ComputeMINDSSD(): the value returned and the count stored
ComputeMINDSSD(e) ==
    LET acc == AccumulateSSD(e, 1)
    IN  [value |-> NormalisedSSD(acc.totalSSD, acc.validCount, e.numChannels),
         validCount |-> acc.validCount]

\* residuals of one valid sample, in channel order
RECURSIVE SampleResiduals(_, _, _)
SampleResiduals(e, sample, ch) ==
    IF ch > e.numChannels THEN <<>>
    ELSE <<ChannelResidual(e, sample, ch)>> \o SampleResiduals(e, sample, ch + 1)

\* jacobianRow[p] = -(mindGradient . transformJacobian[p])
JacobianRow(e, sample, ch) ==
    << -(MovingGradientAt(e.m_MovingMINDFeatureGradientInterpolators, ch,
                          TransformPoint(e.m_Transform, sample.fixedPoint))
           * TransformJacobian(e.m_JacobianFunction, sample.fixedPoint)) >>

RECURSIVE SampleJacobianRows(_, _, _)
SampleJacobianRows(e, sample, ch) ==
    IF ch > e.numChannels THEN <<>>
    ELSE <<JacobianRow(e, sample, ch)>> \o SampleJacobianRows(e, sample, ch + 1)

\* the sample loop of GetResiduals()
RECURSIVE ResidualVector(_, _)
ResidualVector(e, i) ==
    IF i > Len(e.m_SamplePoints) THEN [residuals |-> <<>>, validCount |-> 0]
    ELSE LET sample == e.m_SamplePoints[i]
             rest == ResidualVector(e, i + 1)
         IN  IF AllChannelsValid(e, TransformPoint(e.m_Transform, sample.fixedPoint))
             THEN [residuals |-> SampleResiduals(e, sample, 1) \o rest.residuals,
                   validCount |-> 1 + rest.validCount]
             ELSE rest

\* the sample loop of GetResidualsAndJacobian()
RECURSIVE GetResidualsAndJacobian(_, _)
GetResidualsAndJacobian(e, i) ==
    IF i > Len(e.m_SamplePoints)
    THEN [residuals |-> <<>>, jacobian |-> <<>>, validCount |-> 0]
    ELSE LET sample == e.m_SamplePoints[i]
             rest == GetResidualsAndJacobian(e, i + 1)
         IN  IF AllValid(e, TransformPoint(e.m_Transform, sample.fixedPoint))
             THEN [residuals |-> SampleResiduals(e, sample, 1) \o rest.residuals,
                   jacobian |-> SampleJacobianRows(e, sample, 1) \o rest.jacobian,
                   validCount |-> 1 + rest.validCount]
             ELSE rest

NoResult == [value |-> 0, residuals |-> <<>>, jacobian |-> <<>>]

\* the metric after Initialize() on fixed and moving images, with its
\* transform set
Evaluable(numChannels, moving, samples, jacobianFunction) ==
    [ numChannels |-> numChannels,
      m_MovingImage |-> moving,
      m_MovingMINDFeatures |-> moving,
      m_MovingMINDInterpolators |-> moving,
      m_MovingMINDFeatureGradientInterpolators |-> moving,
      m_SamplePoints |-> samples,
      m_Transform |-> 0,
      m_JacobianFunction |-> jacobianFunction,
      m_NumberOfValidSamples |-> 0,
      m_CurrentValue |-> 0,
      calls |-> 0, op |-> "none", result |-> "none", out |-> NoResult ]

\* a metric nobody evaluates
NoEvaluation == Evaluable(1, "imageA", <<>>, NULL)

EvalCalled(e, op, result, out) ==
    [e EXCEPT !.calls = ev.calls + 1, !.op = op, !.result = result, !.out = out]

EvalSetTransformParameters ==
    /\ ev.calls < MaxEvalCalls
    /\ \E q \in TransformParameters :
           ev' = EvalCalled([ev EXCEPT !.m_Transform = q],
                            "SetTransformParameters", "returned", NoResult)
    /\ UNCHANGED <<optVars, mindVars, confVars, sampVars, geomVars, parVars>>

EvalSetMovingImage ==
    /\ ev.calls < MaxEvalCalls
    /\ \E img \in Images :
           ev' = EvalCalled([ev EXCEPT !.m_MovingImage = img],
                            "SetMovingImage", "returned", NoResult)
    /\ UNCHANGED <<optVars, mindVars, confVars, sampVars, geomVars, parVars>>

\* ReinitializeSampling(): a new moving bundle, its gradients and their
\* interpolators, and new samples; m_MovingMINDInterpolators is not touched
EvalReinitializeSampling ==
    /\ ev.calls < MaxEvalCalls
    /\ \E samples \in SampleSequences(ev.numChannels) :
           ev' = EvalCalled([ev EXCEPT
                               !.m_MovingMINDFeatures = ev.m_MovingImage,
                               !.m_MovingMINDFeatureGradientInterpolators = ev.m_MovingImage,
                               !.m_SamplePoints = samples],
                            "ReinitializeSampling", "returned", NoResult)
    /\ UNCHANGED <<optVars, mindVars, confVars, sampVars, geomVars, parVars>>

EvalGetValue ==
    /\ ev.calls < MaxEvalCalls
    /\ LET r == ComputeMINDSSD(ev)
       IN  ev' = EvalCalled([ev EXCEPT !.m_NumberOfValidSamples = r.validCount,
                                        !.m_CurrentValue = r.value],
                            "GetValue", "returned",
                            [NoResult EXCEPT !.value = r.value])
    /\ UNCHANGED <<optVars, mindVars, confVars, sampVars, geomVars, parVars>>

EvalGetResiduals ==
    /\ ev.calls < MaxEvalCalls
    /\ LET r == ResidualVector(ev, 1)
       IN  ev' = EvalCalled([ev EXCEPT !.m_NumberOfValidSamples = r.validCount],
                            "GetResiduals", "returned",
                            [NoResult EXCEPT !.residuals = r.residuals])
    /\ UNCHANGED <<optVars, mindVars, confVars, sampVars, geomVars, parVars>>

EvalGetJacobian ==
    /\ ev.calls < MaxEvalCalls
    /\ IF ev.m_JacobianFunction = NULL
       THEN ev' = EvalCalled(ev, "GetJacobian", "threw", NoResult)
       ELSE LET r == GetResidualsAndJacobian(ev, 1)
            IN  ev' = EvalCalled([ev EXCEPT !.m_NumberOfValidSamples = r.validCount],
                                 "GetJacobian", "returned",
                                 [NoResult EXCEPT !.jacobian = r.jacobian])
    /\ UNCHANGED <<optVars, mindVars, confVars, sampVars, geomVars, parVars>>

EvalNext ==
    \/ EvalSetTransformParameters
    \/ EvalSetMovingImage
    \/ EvalReinitializeSampling
    \/ EvalGetValue
    \/ EvalGetResiduals
    \/ EvalGetJacobian

-----------------------------------------------------------------------------
(* ConfigManager.  A configuration file is the value it gives each key, in *)
(* the order in which ParseJsonFile reads the keys; a value is absent, a    *)
(* scalar (the characters after the colon) or an array of such items.       *)
(* Doubles are counted in hundredths.                                       *)

MaxLoads == 2           \* LoadFromFile calls on one ConfigManager
MaxKeys == 2            \* keys a configuration file holds

FileOrder ==
    << "transformType", "metricType", "optimizerType", "mindRadius",
       "learningRate", "numberOfIterations", "numberOfLevels",
       "shrinkFactors", "smoothingSigmas", "_comment" >>

Absent == [kind |-> "absent", text |-> <<>>, items |-> <<>>]
Scalar(text) == [kind |-> "scalar", text |-> text, items |-> <<>>]
Array(items) == [kind |-> "array", text |-> <<>>, items |-> items]

\* the values the files give each key
ValuesOf(key) ==
    CASE key = "transformType" ->
             {Scalar(<<"A", "f", "f", "i", "n", "e">>), Scalar(<<"B", "S">>)}
      [] key = "metricType" ->
             {Scalar(<<"M", "I", "N", "D">>), Scalar(<<"N", "C", "C">>)}
      [] key = "optimizerType" ->
             {Scalar(<<"G", "N">>), Scalar(<<"s", "g", "d">>)}
      [] key = "mindRadius" ->
             {Scalar(<<"2">>), Scalar(<<"a">>), Scalar(<<"2", "a">>)}
      [] key = "learningRate" ->
             {Scalar(<<"1", " ">>), Scalar(<<"a">>),
              Array(<< <<"1">>, <<"2">> >>), Array(<< <<"1">>, <<"a">> >>)}
      [] key = "numberOfIterations" ->
             {Scalar(<<"2">>), Array(<< <<"1">>, <<" ", "2">> >>)}
      [] key = "numberOfLevels" -> {Scalar(<<"2">>)}
      [] key = "shrinkFactors" ->
             {Array(<< <<"2">>, <<"1">> >>), Array(<< <<"1">> >>)}
      [] key = "smoothingSigmas" -> {Array(<< <<"1">>, <<"0">> >>)}
      [] OTHER -> {Scalar(<<"a">>), Array(<< <<"2">> >>)}

Keys == {FileOrder[i] : i \in 1..Len(FileOrder)}

NoFile == [k \in Keys |-> Absent]

\* the files that give at most n keys a value
RECURSIVE FilesWith(_)
FilesWith(n) ==
    IF n = 0 THEN {NoFile}
    ELSE LET fewer == FilesWith(n - 1)
         IN  fewer \cup UNION { UNION { {[f EXCEPT ![k] = v] : v \in ValuesOf(k)}
                                          : k \in Keys } : f \in fewer }

Files == FilesWith(MaxKeys)

\* RegistrationConfig's default member initialisers
DefaultConfig ==
    [ transformType |-> "Rigid",
      metricType |-> "MattesMutualInformation",
      optimizerType |-> "RegularStepGradientDescent",
      mindRadius |-> 1,
      learningRate |-> <<200, 100, 50, 10, 5>>,
      numberOfIterations |-> <<1000, 500, 250, 100, 0>>,
      numberOfLevels |-> 5,
      shrinkFactors |-> <<12, 8, 4, 2, 1>>,
      smoothingSigmas |-> <<400, 300, 200, 100, 100>> ]

LowerOf(str) == [i \in 1..Len(str) |-> ToLower(str[i])]

StringToTransformType(str) ==
    LET lower == LowerOf(str)
    IN  IF lower = <<"a", "f", "f", "i", "n", "e">> THEN "Affine"
        ELSE IF lower \in { <<"r", "i", "g", "i", "d", "t", "h", "e", "n",
                              "a", "f", "f", "i", "n", "e">>,
                            <<"r", "i", "g", "i", "d", "+", "a", "f", "f", "i", "n", "e">>,
                            <<"r", "i", "g", "i", "d", "a", "f", "f", "i", "n", "e">> }
        THEN "RigidThenAffine"
        ELSE "Rigid"

StringToMetricType(str) ==
    IF LowerOf(str) \in { <<"m", "i", "n", "d">>,
                          <<"m", "i", "n", "d", "d", "e", "s", "c", "r", "i", "p", "t", "o", "r">> }
    THEN "MIND" ELSE "MattesMutualInformation"

StringToOptimizerType(str) ==
    IF LowerOf(str) \in { <<"g", "a", "u", "s", "s", "n", "e", "w", "t", "o", "n">>,
                          <<"g", "a", "u", "s", "s", "-", "n", "e", "w", "t", "o", "n">>,
                          <<"g", "n">>, <<"l", "m">>,
                          <<"l", "e", "v", "e", "n", "b", "e", "r", "g",
                            "m", "a", "r", "q", "u", "a", "r", "d", "t">>,
                          <<"l", "e", "v", "e", "n", "b", "e", "r", "g", "-",
                            "m", "a", "r", "q", "u", "a", "r", "d", "t">> }
    THEN "GaussNewton" ELSE "RegularStepGradientDescent"

Blank == {" ", "\""}

\* Trim(): strip blanks and quotes at both ends
RECURSIVE Trim(_)
Trim(str) ==
    IF str = <<>> THEN <<>>
    ELSE IF Head(str) \in Blank THEN Trim(Tail(str))
    ELSE IF str[Len(str)] \in Blank THEN Trim(SubSeq(str, 1, Len(str) - 1))
    ELSE str

\* ExtractValue(content, key): "" for an absent key and for an array
ExtractValue(file, key) ==
    IF file[key].kind = "scalar" THEN Trim(file[key].text) ELSE <<>>

RECURSIVE NonEmptyItems(_)
NonEmptyItems(items) ==
    IF items = <<>> THEN <<>>
    ELSE (IF Trim(Head(items)) = <<>> THEN <<>> ELSE <<Trim(Head(items))>>)
             \o NonEmptyItems(Tail(items))

\* ExtractArray(content, key): the items between the first '[' after the
\* key and the ']' that follows it, whichever key that array belongs to
ExtractArray(file, key) ==
    LET at == CHOOSE i \in 1..Len(FileOrder) : FileOrder[i] = key
        arrays == {i \in at..Len(FileOrder) : file[FileOrder[i]].kind = "array"}
    IN  IF file[key].kind = "absent" \/ arrays = {} THEN <<>>
        ELSE NonEmptyItems(
                 file[FileOrder[CHOOSE i \in arrays : \A j \in arrays : i <= j]].items)

Digits == <<"0", "1", "2">>

IsDigit(ch) == \E d \in 1..Len(Digits) : Digits[d] = ch

DigitValue(ch) == (CHOOSE d \in 1..Len(Digits) : Digits[d] = ch) - 1

\* the value of the longest prefix of digits, from acc
RECURSIVE DigitsPrefix(_, _)
DigitsPrefix(str, acc) ==
    IF str = <<>> \/ ~IsDigit(Head(str)) THEN acc
    ELSE DigitsPrefix(Tail(str), 10 * acc + DigitValue(Head(str)))

\* std::stoul(str): skips white space, converts the longest prefix of
\* digits, throws std::invalid_argument when there is none
Stoul(str) ==
    LET rest == IF str # <<>> /\ Head(str) = " " THEN Tail(str) ELSE str
    IN  [ok |-> rest # <<>> /\ IsDigit(Head(rest)),
         value |-> DigitsPrefix(rest, 0)]

\* std::stod(str), in hundredths
Stod(str) == [ok |-> Stoul(str).ok, value |-> 100 * Stoul(str).value]

Convert(str, asDouble) == IF asDouble THEN Stod(str) ELSE Stoul(str)

\* for (const auto& s : array) vector.push_back(convert(s)): the vector
\* when the loop ends or throws
RECURSIVE PushAll(_, _, _)
PushAll(items, asDouble, pushed) ==
    IF items = <<>> THEN [ok |-> TRUE, values |-> pushed]
    ELSE IF ~Convert(Head(items), asDouble).ok THEN [ok |-> FALSE, values |-> pushed]
    ELSE PushAll(Tail(items), asDouble,
                 Append(pushed, Convert(Head(items), asDouble).value))

\* if (!text.empty()) m_Config.field = convert(text)
ParseScalar(st, file, key, asDouble) ==
    LET text == ExtractValue(file, key)
    IN  IF ~st.ok \/ text = <<>> THEN st
        ELSE IF Convert(text, asDouble).ok
        THEN [st EXCEPT !.config[key] = Convert(text, asDouble).value]
        ELSE [st EXCEPT !.ok = FALSE]

\* auto array = ExtractArray(...); if (!array.empty()) { clear; push each }
ParseArray(st, file, key, asDouble) ==
    LET items == ExtractArray(file, key)
        r == PushAll(items, asDouble, <<>>)
    IN  IF ~st.ok \/ items = <<>> THEN st
        ELSE [st EXCEPT !.config[key] = r.values, !.ok = r.ok]

\* learningRate and numberOfIterations: a scalar, else (also when the scalar
\* does not convert) an array
ParseScalarOrArray(st, file, key, asDouble) ==
    LET text == ExtractValue(file, key)
    IN  IF ~st.ok THEN st
        ELSE IF text # <<>> /\ Convert(text, asDouble).ok
        THEN [st EXCEPT !.config[key] = <<Convert(text, asDouble).value>>]
        ELSE ParseArray(st, file, key, asDouble)

\* the three enumerated keys at the top of ParseJsonFile
ParseTypes(st, file) ==
    LET t == ExtractValue(file, "transformType")
        m == ExtractValue(file, "metricType")
        o == ExtractValue(file, "optimizerType")
        c1 == IF t # <<>>
              THEN [st.config EXCEPT !.transformType = StringToTransformType(t)]
              ELSE st.config
        c2 == IF m # <<>>
              THEN [c1 EXCEPT !.metricType = StringToMetricType(m)]
              ELSE c1
        c3 == [c2 EXCEPT !.optimizerType =
                  IF o # <<>> THEN StringToOptimizerType(o)
                  ELSE IF c2.metricType = "MIND" THEN "GaussNewton"
                  ELSE "RegularStepGradientDescent"]
    IN  [st EXCEPT !.config = c3]

\* ParseJsonFile(content): m_Config when it returns, and what it returns
ParseJsonFile(config, file) ==
    LET s0 == ParseTypes([config |-> config, ok |-> TRUE], file)
        s1 == ParseScalar(s0, file, "mindRadius", FALSE)
        s2 == ParseScalarOrArray(s1, file, "learningRate", TRUE)
        s3 == ParseScalarOrArray(s2, file, "numberOfIterations", FALSE)
        s4 == ParseScalar(s3, file, "numberOfLevels", FALSE)
        s5 == ParseArray(s4, file, "shrinkFactors", FALSE)
    IN  ParseArray(s5, file, "smoothingSigmas", TRUE)

\* a ConfigManager after its constructor
NoLoad ==
    [ m_Config |-> DefaultConfig, loads |-> 0, opened |-> FALSE,
      file |-> NoFile, before |-> DefaultConfig, success |-> FALSE ]

\* LoadFromFile(filePath) on a path that cannot be opened
LoadMissingFile ==
    /\ cm.loads < MaxLoads
    /\ cm' = [cm EXCEPT !.loads = cm.loads + 1, !.opened = FALSE,
                        !.file = NoFile, !.before = cm.m_Config,
                        !.success = FALSE]
    /\ UNCHANGED <<optVars, mindVars, evalVars, sampVars, geomVars, parVars>>

\* LoadFromFile(filePath) on a file that opens
LoadFromFile ==
    /\ cm.loads < MaxLoads
    /\ \E file \in Files :
           LET r == ParseJsonFile(cm.m_Config, file)
           IN  cm' = [cm EXCEPT !.loads = cm.loads + 1, !.opened = TRUE,
                                !.file = file, !.before = cm.m_Config,
                                !.m_Config = r.config, !.success = r.ok]
    /\ UNCHANGED <<optVars, mindVars, evalVars, sampVars, geomVars, parVars>>

ConfNext ==
    \/ LoadMissingFile
    \/ LoadFromFile

-----------------------------------------------------------------------------
(* MINDMetric sampling.  The generator is the seed it was last given and   *)
(* the number of values drawn since; an index is one draw per axis.        *)

MaxSamplingCalls == 3   \* sampling calls on one metric

default_seed == 5489
DefaultRandomSeed == 121212

\* the seeds a caller passes to SetRandomSeed
RandomSeeds == {7, default_seed}

\* admissible indices per axis: padding .. size - padding - 1
Extent == 3

\* the next value of std::uniform_int_distribution on the generator
Mt19937(gen) == (gen.seed + gen.drawn) % Extent

Draw(gen) == [gen EXCEPT !.drawn = gen.drawn + 1]

\* SampleFixedImageRandom(): x, y, z drawn in turn for each sample
SampleFixedImageRandom(gen) ==
    [ points |-> [i \in 1..MaxSamples |->
                     LET g == [gen EXCEPT !.drawn = gen.drawn + 3 * (i - 1)]
                     IN  <<Mt19937(g), Mt19937(Draw(g)), Mt19937(Draw(Draw(g)))>>],
      gen |-> [gen EXCEPT !.drawn = gen.drawn + 3 * MaxSamples] ]

\* SampleFixedImageStratified(): the grid in raster order, x fastest
SampleFixedImageStratified(gen) ==
    [ points |-> [i \in 1..MaxSamples |->
                     << (i - 1) % Extent, ((i - 1) \div Extent) % Extent,
                        (i - 1) \div (Extent * Extent) >>],
      gen |-> gen ]

SampleFixedImageBy(s) ==
    IF s.m_UseStratifiedSampling
    THEN SampleFixedImageStratified(s.m_RandomGenerator)
    ELSE SampleFixedImageRandom(s.m_RandomGenerator)

\* the sampling members after MINDMetric's constructor
NoSampling ==
    [ m_RandomSeed |-> DefaultRandomSeed, m_UseFixedSeed |-> TRUE,
      m_UseStratifiedSampling |-> TRUE,
      m_RandomGenerator |-> [seed |-> default_seed, drawn |-> 0],
      m_SamplePoints |-> <<>>, calls |-> 0, op |-> "none" ]

CallSetRandomSeed ==
    /\ \E seed \in RandomSeeds :
           smp' = [smp EXCEPT !.m_RandomSeed = seed, !.m_UseFixedSeed = TRUE,
                              !.op = "SetRandomSeed"]
    /\ UNCHANGED <<optVars, mindVars, evalVars, confVars, geomVars, parVars>>

CallSetUseStratifiedSampling ==
    /\ \E use \in BOOLEAN :
           smp' = [smp EXCEPT !.m_UseStratifiedSampling = use,
                              !.op = "SetUseStratifiedSampling"]
    /\ UNCHANGED <<optVars, mindVars, evalVars, confVars, geomVars, parVars>>

\* Initialize() on valid inputs: SampleFixedImage(), then the generator is seeded
SamplingInitialize ==
    /\ smp.calls < MaxSamplingCalls
    /\ \E entropy \in RandomSeeds :
           smp' = [smp EXCEPT
                      !.m_SamplePoints = SampleFixedImageBy(smp).points,
                      !.m_RandomGenerator =
                          [seed |-> IF smp.m_UseFixedSeed THEN smp.m_RandomSeed
                                    ELSE entropy,
                           drawn |-> 0],
                      !.calls = smp.calls + 1, !.op = "Initialize"]
    /\ UNCHANGED <<optVars, mindVars, evalVars, confVars, geomVars, parVars>>

\* ReinitializeSampling(): SampleFixedImage() alone
SamplingReinitialize ==
    /\ smp.calls < MaxSamplingCalls
    /\ smp.m_SamplePoints # <<>>
    /\ smp' = [smp EXCEPT
                  !.m_SamplePoints = SampleFixedImageBy(smp).points,
                  !.m_RandomGenerator = SampleFixedImageBy(smp).gen,
                  !.calls = smp.calls + 1, !.op = "ReinitializeSampling"]
    /\ UNCHANGED <<optVars, mindVars, evalVars, confVars, geomVars, parVars>>

SamplingNext ==
    \/ CallSetRandomSeed
    \/ CallSetUseStratifiedSampling
    \/ SamplingInitialize
    \/ SamplingReinitialize

-----------------------------------------------------------------------------
(* MINDMetric sample geometry.  The fixed volume is its size per axis; a   *)
(* sample point is its index <<x, y, z>>.  No mask is set.  The sampling   *)
(* percentage is kept in hundredths.                                       *)

WordBits == 4           \* width of the unsigned index arithmetic
MaxRandomSamples == 1   \* target of a random sampling call

WordMax == 2^WordBits - 1

\* unsigned arithmetic: size[i] - padding, size[i] - padding - 1
Unsigned(n) == n % (2^WordBits)

\* region.GetSize() of the fixed image
AxisSizes == {1, 5, 7}
VolumeSizes == AxisSizes \X AxisSizes \X AxisSizes

\* arguments of SetMINDRadius and SetSamplingPercentage
LatticeRadii == {1, 2}
SamplingPercentages == {1, 15, 100}

TotalVoxels(size) == size[1] * size[2] * size[3]

\* static_cast<unsigned long>(totalVoxels * m_SamplingPercentage)
TargetSamples(size, percent) == (TotalVoxels(size) * percent) \div 100

Padding(radius) == radius + 1

\* static_cast<unsigned int>(std::cbrt(total / target)): the cast truncates
SamplingInterval(total, target) ==
    LET roots == {s \in 0..WordMax : s * s * s * target <= total}
    IN  CHOOSE s \in roots : \A t \in roots : t <= s

\* std::max(1u, ...); with no target the quotient is infinite and the cast
\* of an infinite double is undefined
Steps(total, target) ==
    IF target = 0 THEN {1, WordMax}
    ELSE {Max(1, SamplingInterval(total, target))}

\* for (i = padding; i < size - padding; i += step): the bound is unsigned
\* and wider than i, so below the padding it is never reached
AxisEndless(size, padding) == size < padding

AxisCount(size, padding, step) ==
    IF Unsigned(size - padding) <= padding THEN 0
    ELSE ((Unsigned(size - padding) - 1 - padding) \div step) + 1

AxisLength(size, padding, step, target) ==
    IF AxisEndless(size, padding) THEN Max(target, 1)
    ELSE AxisCount(size, padding, step)

AxisIndex(padding, step, k) == Unsigned(padding + (k - 1) * step)

\* an index outside the buffer that GetPixel reads
Outside(point, size) == \E a \in 1..3 : point[a] >= size[a]

\* the samples pushed before GetPixel is given an index outside the buffer
Pushed(points, size) ==
    LET bad == {i \in 1..Len(points) : Outside(points[i], size)}
    IN  IF bad = {} THEN points
        ELSE SubSeq(points, 1, (CHOOSE i \in bad : \A j \in bad : i <= j) - 1)

\* GetPixel outside the buffer is undefined: the read returns or faults
ReadOutcomes(points, size) ==
    IF \E i \in 1..Len(points) : Outside(points[i], size)
    THEN {"returned", "crashed"}
    ELSE {"returned"}

Sampled(l, op, step, points, outcome) ==
    [l EXCEPT !.op = op, !.step = step, !.outcome = outcome,
              !.m_SamplePoints =
                  IF outcome = "crashed" THEN Pushed(points, l.size)
                  ELSE points]

\* the lattice the three loops of SampleFixedImageStratified() walk, x
\* fastest, cut at targetSamples
StratifiedLattice(size, padding, step, target) ==
    LET nx == AxisLength(size[1], padding, step, target)
        ny == AxisLength(size[2], padding, step, target)
        nz == AxisLength(size[3], padding, step, target)
    IN  [i \in 1..Min(target, nx * ny * nz) |->
            << AxisIndex(padding, step, ((i - 1) % nx) + 1),
               AxisIndex(padding, step, (((i - 1) \div nx) % ny) + 1),
               AxisIndex(padding, step, ((i - 1) \div (nx * ny)) + 1) >>]

\* an endless loop whose body never reaches the limit test
StratifiedHangs(size, padding, step, target) ==
    LET nx == AxisLength(size[1], padding, step, target)
        ny == AxisLength(size[2], padding, step, target)
        nz == AxisLength(size[3], padding, step, target)
    IN  \/ AxisEndless(size[3], padding) /\ (nx = 0 \/ ny = 0)
        \/ AxisEndless(size[2], padding) /\ nz > 0 /\ nx = 0

\* the values std::uniform_int_distribution<unsigned int>(a, b) returns;
\* with a > b its behaviour is undefined.  Of a long range the ends are drawn.
Distribution(size, padding) ==
    LET b == Unsigned(size - padding - 1)
        range == IF padding <= b THEN padding..b ELSE 0..WordMax
    IN  IF Cardinality(range) <= 3 THEN range
        ELSE {x \in range : (\A y \in range : x <= y)
                                \/ (\A z \in range : x >= z)}

NoGeometry ==
    [ size |-> <<1, 1, 1>>, m_MINDRadius |-> 1, m_SamplingPercentage |-> 15,
      op |-> "none", outcome |-> "none", step |-> 0, m_SamplePoints |-> << >> ]

\* the state of a metric no sampling call has run on
Unsampled(l) ==
    [l EXCEPT !.op = "none", !.outcome = "none", !.step = 0,
              !.m_SamplePoints = << >>]

GeomSetFixedImage ==
    /\ \E size \in VolumeSizes : lat' = [Unsampled(lat) EXCEPT !.size = size]
    /\ UNCHANGED <<optVars, mindVars, evalVars, confVars, sampVars, parVars>>

GeomSetMINDRadius ==
    /\ \E radius \in LatticeRadii :
           lat' = [Unsampled(lat) EXCEPT !.m_MINDRadius = radius]
    /\ UNCHANGED <<optVars, mindVars, evalVars, confVars, sampVars, parVars>>

GeomSetSamplingPercentage ==
    /\ \E percent \in SamplingPercentages :
           lat' = [Unsampled(lat) EXCEPT !.m_SamplingPercentage = percent]
    /\ UNCHANGED <<optVars, mindVars, evalVars, confVars, sampVars, parVars>>

\* SampleFixedImageStratified()
GeomSampleStratified ==
    /\ LET target == TargetSamples(lat.size, lat.m_SamplingPercentage)
           padding == Padding(lat.m_MINDRadius)
       IN  \E step \in Steps(TotalVoxels(lat.size), target) :
               IF StratifiedHangs(lat.size, padding, step, target)
               THEN lat' = Sampled(lat, "SampleFixedImageStratified", step,
                                   << >>, "hung")
               ELSE LET points == StratifiedLattice(lat.size, padding, step,
                                                    target)
                    IN  \E outcome \in ReadOutcomes(points, lat.size) :
                            lat' = Sampled(lat, "SampleFixedImageStratified",
                                           step, points, outcome)
    /\ UNCHANGED <<optVars, mindVars, evalVars, confVars, sampVars, parVars>>

\* SampleFixedImageRandom(): every attempt yields a sample
GeomSampleRandom ==
    /\ LET target == TargetSamples(lat.size, lat.m_SamplingPercentage)
           padding == Padding(lat.m_MINDRadius)
           indices == Distribution(lat.size[1], padding)
                          \X Distribution(lat.size[2], padding)
                          \X Distribution(lat.size[3], padding)
       IN  /\ target <= MaxRandomSamples
           /\ \E points \in [1..target -> indices] :
                  \E outcome \in ReadOutcomes(points, lat.size) :
                      lat' = Sampled(lat, "SampleFixedImageRandom", 0,
                                     points, outcome)
    /\ UNCHANGED <<optVars, mindVars, evalVars, confVars, sampVars, parVars>>

GeometryNext ==
    \/ GeomSetFixedImage
    \/ GeomSetMINDRadius
    \/ GeomSetSamplingPercentage
    \/ GeomSampleStratified
    \/ GeomSampleRandom

-----------------------------------------------------------------------------
(* The parallel sample loops of MINDMetric.  A sample is whether every     *)
(* channel is inside the buffer and what it adds to the sum (one gradient  *)
(* component, or the squared difference).  A worker is one OpenMP thread   *)
(* of the team: its chunk lo..hi of the static schedule, the next index i, *)
(* its private accumulators, and what it read inside the critical section.*)

MaxParSamples == 3   \* samples of one parallel evaluation
MaxWorkers == 2      \* threads of the team

ParallelOperations == {"ComputeMINDSSD", "ComputeAnalyticalGradient"}

\* a sample outside the buffer adds nothing
SampleKinds ==
    { [valid |-> FALSE, value |-> 0], [valid |-> TRUE, value |-> 1],
      [valid |-> TRUE, value |-> 2] }

ParSamples == UNION {[1..n -> SampleKinds] : n \in 1..MaxParSamples}

\* schedule(static): contiguous chunks, one per thread, in thread order
StaticSchedules(workers, n) ==
    {c \in [0..workers -> 0..n] :
        /\ c[0] = 0
        /\ c[workers] = n
        /\ \A w \in 1..workers : c[w - 1] <= c[w]}

\* a thread entering the parallel region: zeroed private accumulators
ThreadStart(lo, hi) ==
    [ pc |-> "for", lo |-> lo, hi |-> hi, i |-> lo,
      threadDerivative |-> 0, threadValidSamples |-> 0,
      loaded |-> [derivative |-> 0, valid |-> 0] ]

NoParallel ==
    [ pc |-> "idle", op |-> "none", samples |-> << >>, worker |-> << >>,
      localDerivative |-> 0, validSamples |-> 0, processed |-> << >> ]

\* #pragma omp critical: no thread of the team is inside
CriticalFreeAlways(p) == TRUE

CriticalFree(p) == \A w \in DOMAIN p.worker : p.worker[w].pc # "critical"

\* the serial loop over the same samples
SequentialSum(samples) ==
    LET RECURSIVE Sum(_)
        Sum(n) == IF n = 0 THEN 0
                  ELSE Sum(n - 1)
                       + (IF samples[n].valid THEN samples[n].value ELSE 0)
    IN  Sum(Len(samples))

SequentialValid(samples) ==
    Cardinality({i \in 1..Len(samples) : samples[i].valid})

\* the team is formed and the shared accumulators are zero
ParBegin ==
    /\ par.pc = "idle"
    /\ \E op \in ParallelOperations, samples \in ParSamples,
          workers \in 1..MaxWorkers :
          \E c \in StaticSchedules(workers, Len(samples)) :
              par' = [ pc |-> "parallel", op |-> op, samples |-> samples,
                       worker |-> [w \in 1..workers |->
                                      ThreadStart(c[w - 1] + 1, c[w])],
                       localDerivative |-> 0, validSamples |-> 0,
                       processed |-> [i \in 1..Len(samples) |-> 0] ]
    /\ UNCHANGED <<optVars, mindVars, evalVars, confVars, sampVars, geomVars>>

\* one iteration of the loop body on the thread's next sample
ParIterate ==
    /\ par.pc = "parallel"
    /\ \E w \in DOMAIN par.worker :
          LET t == par.worker[w]
              sample == par.samples[t.i]
          IN  /\ t.pc = "for"
              /\ t.i <= t.hi
              /\ par' = [par EXCEPT
                    !.worker[w] =
                        [t EXCEPT !.i = t.i + 1,
                                  !.threadDerivative =
                                      IF sample.valid
                                      THEN t.threadDerivative + sample.value
                                      ELSE t.threadDerivative,
                                  !.threadValidSamples =
                                      IF sample.valid
                                      THEN t.threadValidSamples + 1
                                      ELSE t.threadValidSamples],
                    !.processed[t.i] = par.processed[t.i] + 1]
    /\ UNCHANGED <<optVars, mindVars, evalVars, confVars, sampVars, geomVars>>

\* nowait: a thread whose chunk is done enters the critical section as
\* soon as it is free, and reads the shared accumulators
ParEnterCritical ==
    /\ par.pc = "parallel"
    /\ \E w \in DOMAIN par.worker :
          LET t == par.worker[w]
          IN  /\ t.pc = "for"
              /\ t.i > t.hi
              /\ CriticalFree(par)
              /\ par' = [par EXCEPT
                    !.worker[w] =
                        [t EXCEPT !.pc = "critical",
                                  !.loaded =
                                      [derivative |-> par.localDerivative,
                                       valid |-> par.validSamples]]]
    /\ UNCHANGED <<optVars, mindVars, evalVars, confVars, sampVars, geomVars>>

\* the thread writes the sums back and leaves the critical section
ParLeaveCritical ==
    /\ par.pc = "parallel"
    /\ \E w \in DOMAIN par.worker :
          LET t == par.worker[w]
          IN  /\ t.pc = "critical"
              /\ par' = [par EXCEPT
                    !.worker[w] = [t EXCEPT !.pc = "end"],
                    !.localDerivative =
                        t.loaded.derivative + t.threadDerivative,
                    !.validSamples = t.loaded.valid + t.threadValidSamples]
    /\ UNCHANGED <<optVars, mindVars, evalVars, confVars, sampVars, geomVars>>

\* the barrier that ends the parallel region
ParJoin ==
    /\ par.pc = "parallel"
    /\ \A w \in DOMAIN par.worker : par.worker[w].pc = "end"
    /\ par' = [par EXCEPT !.pc = "done"]
    /\ UNCHANGED <<optVars, mindVars, evalVars, confVars, sampVars, geomVars>>

\* the function returns and its locals are gone
ParReturn ==
    /\ par.pc = "done"
    /\ par' = NoParallel
    /\ UNCHANGED <<optVars, mindVars, evalVars, confVars, sampVars, geomVars>>

ParallelNext ==
    \/ ParBegin
    \/ ParIterate
    \/ ParEnterCritical
    \/ ParLeaveCritical
    \/ ParJoin
    \/ ParReturn

-----------------------------------------------------------------------------
(* Specifications *)

\* the optimizer, on a metric that is never called
InitOptimizer ==
    /\ pc = "idle"
    /\ cfg \in Settings
    /\ \E d \in DampingStarts : opt = OptimizerConstructed(d)
    /\ params = <<0>>
    /\ obs = NoObservation
    /\ mind = MindConstructed
    /\ mobs = NoCall
    /\ ev = NoEvaluation
    /\ cm = NoLoad
    /\ smp = NoSampling
    /\ lat = NoGeometry
    /\ par = NoParallel

SpecOptimizer == InitOptimizer /\ [][OptNext]_vars

\* an optimizer with an observer installed
InitObserver ==
    /\ pc = "idle"
    /\ cfg \in ObservedSettings
    /\ opt = OptimizerConstructed([base |-> "init", exp |-> 0])
    /\ params = <<0>>
    /\ obs = NoObservation
    /\ mind = MindConstructed
    /\ mobs = NoCall
    /\ ev = NoEvaluation
    /\ cm = NoLoad
    /\ smp = NoSampling
    /\ lat = NoGeometry
    /\ par = NoParallel

SpecObserver == InitObserver /\ [][OptNext]_vars

\* the metric, beside an optimizer that is never run
InitMIND ==
    /\ pc = "idle"
    /\ cfg = CHOOSE c \in Settings : TRUE
    /\ opt = OptimizerConstructed([base |-> "init", exp |-> 0])
    /\ params = <<0>>
    /\ obs = NoObservation
    /\ mind = MindConstructed
    /\ mobs = NoCall
    /\ ev = NoEvaluation
    /\ cm = NoLoad
    /\ smp = NoSampling
    /\ lat = NoGeometry
    /\ par = NoParallel

SpecMIND == InitMIND /\ [][MindNext]_vars

\* an initialised metric under evaluation
InitEval ==
    /\ pc = "idle"
    /\ cfg = CHOOSE c \in Settings : TRUE
    /\ opt = OptimizerConstructed([base |-> "init", exp |-> 0])
    /\ params = <<0>>
    /\ obs = NoObservation
    /\ mind = MindConstructed
    /\ mobs = NoCall
    /\ \E k \in Channels, moving \in Images, jf \in JacobianFunctions :
       \E samples \in SampleSequences(k) :
           ev = Evaluable(k, moving, samples, jf)
    /\ cm = NoLoad
    /\ smp = NoSampling
    /\ lat = NoGeometry
    /\ par = NoParallel

SpecEval == InitEval /\ [][EvalNext]_vars

\* a ConfigManager that loads files
InitConf ==
    /\ pc = "idle"
    /\ cfg = CHOOSE c \in Settings : TRUE
    /\ opt = OptimizerConstructed([base |-> "init", exp |-> 0])
    /\ params = <<0>>
    /\ obs = NoObservation
    /\ mind = MindConstructed
    /\ mobs = NoCall
    /\ ev = NoEvaluation
    /\ cm = NoLoad
    /\ smp = NoSampling
    /\ lat = NoGeometry
    /\ par = NoParallel

SpecConf == InitConf /\ [][ConfNext]_vars

\* a MINDMetric that is sampled
InitSampling ==
    /\ pc = "idle"
    /\ cfg = CHOOSE c \in Settings : TRUE
    /\ opt = OptimizerConstructed([base |-> "init", exp |-> 0])
    /\ params = <<0>>
    /\ obs = NoObservation
    /\ mind = MindConstructed
    /\ mobs = NoCall
    /\ ev = NoEvaluation
    /\ cm = NoLoad
    /\ smp = NoSampling
    /\ lat = NoGeometry
    /\ par = NoParallel

SpecSampling == InitSampling /\ [][SamplingNext]_vars

\* the sample geometry of one metric
InitGeometry ==
    /\ pc = "idle"
    /\ cfg = CHOOSE c \in Settings : TRUE
    /\ opt = OptimizerConstructed([base |-> "init", exp |-> 0])
    /\ params = <<0>>
    /\ obs = NoObservation
    /\ mind = MindConstructed
    /\ mobs = NoCall
    /\ ev = NoEvaluation
    /\ cm = NoLoad
    /\ smp = NoSampling
    /\ lat = NoGeometry
    /\ par = NoParallel

SpecGeometry == InitGeometry /\ [][GeometryNext]_vars

\* one parallel evaluation after another
InitParallel ==
    /\ pc = "idle"
    /\ cfg = CHOOSE c \in Settings : TRUE
    /\ opt = OptimizerConstructed([base |-> "init", exp |-> 0])
    /\ params = <<0>>
    /\ obs = NoObservation
    /\ mind = MindConstructed
    /\ mobs = NoCall
    /\ ev = NoEvaluation
    /\ cm = NoLoad
    /\ smp = NoSampling
    /\ lat = NoGeometry
    /\ par = NoParallel

SpecParallel == InitParallel /\ [][ParallelNext]_vars

-----------------------------------------------------------------------------
(* Properties of GaussNewtonOptimizer, checked under SpecOptimizer *)

\* one step of the loop has just run, in either mode
StepTaken == obs'.steps = obs.steps + 1

\* C1: a run started with the required callbacks takes at most
\* number_of_iterations steps; while the loop is running no step has set a
\* stop condition; on return the stop condition is one of the five, and it
\* is MaxIterations exactly when no step set another one.
C1_Termination ==
    /\ obs.steps <= cfg.m_NumberOfIterations
    /\ pc = "loop" =>
          /\ opt.m_CurrentIteration = obs.steps
          /\ opt.m_CurrentIteration < cfg.m_NumberOfIterations
          /\ opt.m_StopCondition = "MAXIMUM_ITERATIONS"
    /\ pc \in {"exit", "done"} =>
          /\ opt.m_StopCondition \in StopConditions
          /\ (opt.m_StopCondition = "MAXIMUM_ITERATIONS") <=> ~obs.stepSetStop
          /\ opt.m_StopCondition = "MAXIMUM_ITERATIONS" =>
                 obs.steps = cfg.m_NumberOfIterations

\* a second run on the same optimizer that a step ended before the cap
C1_Witness ==
    /\ pc = "done"
    /\ obs.run = 2
    /\ obs.steps = 1
    /\ cfg.m_NumberOfIterations = 2
    /\ opt.m_StopCondition = "STEP_TOO_SMALL"

\* C2: across a rejected step, in either mode and with or without line
\* search, the caller's parameters and the current cost are what they were
\* before the step.
C2_RejectRestores ==
    [][(StepTaken /\ obs'.outcome = "rejected") =>
           /\ params' = params
           /\ opt'.m_CurrentValue = opt.m_CurrentValue]_vars

\* a Gauss-Newton step that line search shortened, tried elsewhere, and
\* that was then rejected
C2_Witness ==
    /\ obs.outcome = "rejected"
    /\ UseGaussNewton(cfg)
    /\ cfg.m_UseLineSearch
    /\ obs.evals > 0
    /\ obs.tried # params

\* C3: during a run the best cost never increases, the best pair is the
\* lowest-cost iterate among the initial parameters and the accepted steps,
\* and with return_best_parameters the run returns the best pair whatever
\* the stop condition.
C3_BestRetention ==
    /\ [](pc \in {"loop", "exit", "done"} =>
            /\ opt.m_BestValue = obs.lowest
            /\ opt.m_BestValue <= obs.initCost
            /\ CostAt(cfg.costShape, opt.m_BestParameters) = opt.m_BestValue)
    /\ []((pc = "done" /\ cfg.m_ReturnBestParameters) =>
            /\ params = opt.m_BestParameters
            /\ opt.m_CurrentValue = opt.m_BestValue)
    /\ [][StepTaken => opt'.m_BestValue <= opt.m_BestValue]_vars

\* a run that improved on the initial cost, was ended by a step, and
\* returned the best pair
C3_Witness ==
    /\ pc = "done"
    /\ cfg.m_ReturnBestParameters
    /\ obs.steps = 2
    /\ opt.m_BestValue < obs.initCost
    /\ opt.m_StopCondition # "MAXIMUM_ITERATIONS"

\* C4: with number_of_iterations = 0 the run takes no step, leaves the
\* initial parameters, stops with MaxIterations and reports the cost at the
\* initial parameters.
C4_ZeroIterations ==
    (cfg.m_NumberOfIterations = 0 /\ pc \in {"loop", "exit", "done"}) =>
        /\ pc # "loop"
        /\ obs.steps = 0
        /\ params = obs.initParams
        /\ opt.m_StopCondition = "MAXIMUM_ITERATIONS"
        /\ opt.m_CurrentValue = CostAt(cfg.costShape, obs.initParams)

C4_Witness ==
    /\ cfg.m_NumberOfIterations = 0
    /\ pc = "done"
    /\ obs.run = 2

\* C5: in Gauss-Newton mode an iteration ends with Converged only if its
\* step was accepted; an iteration whose step was rejected never ends with
\* Converged.
C5_ConvergedOnlyOnAccept ==
    [][(StepTaken /\ UseGaussNewton(cfg)
          /\ opt'.m_StopCondition = "CONVERGED") =>
           obs'.outcome = "accepted"]_vars

\* C6: a rejected Gauss-Newton step restores the parameters, relaxes the
\* step factor, doubles the LM damping, and the loop goes on unless the
\* step factor fell below minimum_step_length (StepTooSmall) or the
\* iteration cap is reached.
C6_RejectContinues ==
    [][(StepTaken /\ UseGaussNewton(cfg) /\ obs'.outcome = "rejected") =>
           /\ params' = params
           /\ opt'.m_CurrentStepLength =
                  Mul(opt.m_CurrentStepLength, cfg.m_RelaxationFactor)
           /\ cfg.m_UseLevenbergMarquardt =>
                  opt'.m_DampingFactor = DoubleDamping(opt.m_DampingFactor)
           /\ pc' = "exit" =>
                  \/ /\ opt'.m_StopCondition = "STEP_TOO_SMALL"
                     /\ opt'.m_CurrentStepLength < cfg.m_MinimumStepLength
                  \/ /\ opt'.m_StopCondition = "MAXIMUM_ITERATIONS"
                     /\ obs'.steps = cfg.m_NumberOfIterations]_vars

\* C7: a Gauss-Newton step given no residual or an empty or wrong-width
\* Jacobian leaves the parameters, sets SingularMatrix and ends the loop,
\* and the run returns the best parameters found so far.
C7_SingularHalts ==
    /\ [][(StepTaken /\ obs'.outcome \in {"empty_residuals", "invalid_jacobian"}) =>
             /\ params' = params
             /\ opt'.m_StopCondition = "SINGULAR_MATRIX"
             /\ pc' = "exit"
             /\ opt'.m_BestValue = opt.m_BestValue
             /\ opt'.m_BestParameters = opt.m_BestParameters]_vars
    /\ []((pc = "done" /\ obs.outcome \in {"empty_residuals", "invalid_jacobian"}) =>
             /\ opt.m_StopCondition = "SINGULAR_MATRIX"
             /\ params = opt.m_BestParameters
             /\ CostAt(cfg.costShape, params) = obs.lowest)

\* a wrong-width Jacobian after an accepted step, with iterations to spare
C7_Witness ==
    /\ pc = "done"
    /\ obs.outcome = "invalid_jacobian"
    /\ obs.steps = 2
    /\ obs.lowest < obs.initCost
    /\ params # obs.initParams

-----------------------------------------------------------------------------
(* Properties of MINDMetric, checked under SpecMIND *)

\* one more member function has just been called
CallMade(op) == mobs'.calls = mobs.calls + 1 /\ mobs'.op = op

MetricOperations == {"GetValue", "GetDerivative", "GetResiduals", "GetJacobian"}

\* C8: Initialize() called with the fixed image, the moving image or the
\* transform unset throws, and leaves every member (bundles, cache flags,
\* samples) as it was.
C8_InitializeFailsCleanly ==
    [][(/\ CallMade("Initialize")
        /\ \/ mind.m_FixedImage = NULL
           \/ mind.m_MovingImage = NULL
           \/ mind.m_Transform = NULL) =>
           /\ mobs'.result = "threw"
           /\ mind' = mind]_vars

\* Initialize() throws for a missing transform alone, on a metric that holds
\* bundles and samples from an earlier Initialize()
C8_Witness ==
    /\ mobs.op = "Initialize"
    /\ mobs.result = "threw"
    /\ mind.m_FixedImage # NULL
    /\ mind.m_MovingImage # NULL
    /\ mind.m_Transform = NULL
    /\ mind.m_SamplePoints.count > 0
    /\ mind.m_FixedMINDFeaturesValid
    /\ mind.m_MovingMINDFeaturesValid

\* C9: GetValue, GetDerivative, GetResiduals or GetJacobian called before a
\* successful Initialize() raises an error instead of returning.
C9_UninitializedSurfaced ==
    (mobs.op \in MetricOperations /\ ~mobs.initialized) =>
        mobs.result = "threw"

\* C10: an Initialize() with the same fixed and moving image references,
\* radius and neighbourhood as the previous successful Initialize(), and no
\* ResetCache() in between, recomputes neither bundle nor the moving
\* gradients; the first Initialize() after a ResetCache() recomputes all
\* three.
C10_BundleCaching ==
    [][(/\ CallMade("Initialize")
        /\ mobs'.result = "returned"
        /\ mobs.initialized) =>
           /\ (/\ ~mobs.resetSince
               /\ mind.m_FixedImage = mobs.lastInit.fixed
               /\ mind.m_MovingImage = mobs.lastInit.moving
               /\ mind.m_MINDRadius = mobs.lastInit.radius
               /\ mind.m_NeighborhoodType = mobs.lastInit.type) =>
                  /\ ~mobs'.recomputedFixed
                  /\ ~mobs'.recomputedMoving
                  /\ ~mobs'.recomputedGradients
           /\ mobs.resetSince =>
                  /\ mobs'.recomputedFixed
                  /\ mobs'.recomputedMoving
                  /\ mobs'.recomputedGradients]_vars

\* C13: on a metric with no image bound and never initialised,
\* ComputePatchDistances and ComputeMINDFeatures return 6 volumes when the
\* selected neighbourhood type is 6-connected and 26 when it is
\* 26-connected, whichever setter selected it, and change no member.
C13_ChannelCountFollowsType ==
    [][(/\ CallMade("ComputePatchDistances") \/ CallMade("ComputeMINDFeatures")
        /\ mind.m_FixedImage = NULL
        /\ mind.m_MovingImage = NULL
        /\ ~mobs.initialized) =>
           /\ mobs'.result = "returned"
           /\ mobs'.volumes =
                  IF mind.m_NeighborhoodType = "SixConnected" THEN 6 ELSE 26
           /\ mind' = mind]_vars

-----------------------------------------------------------------------------
(* Properties of the metric evaluation, checked under SpecEval *)

\* indices of the samples whose transformed point lies inside the buffer of
\* every channel's interpolator
ValidSamples(e) ==
    { i \in 1..Len(e.m_SamplePoints) :
        \A ch \in 1..e.numChannels :
            IsInsideBuffer(e.m_MovingMINDInterpolators,
                           TransformPoint(e.m_Transform, e.m_SamplePoints[i].fixedPoint)) }

\* fixed_mind[ch] - moving_mind[ch](T(x_i))
Difference(e, i, ch) ==
    e.m_SamplePoints[i].fixedMINDValues[ch]
        - MovingFeatureAt(e.m_MovingMINDInterpolators, ch,
                          TransformPoint(e.m_Transform, e.m_SamplePoints[i].fixedPoint))

RECURSIVE SumOver(_, _)
SumOver(S, e) ==
    IF S = {} THEN 0
    ELSE LET x == CHOOSE y \in S : TRUE
         IN  Difference(e, x[1], x[2]) * Difference(e, x[1], x[2])
                 + SumOver(S \ {x}, e)

\* C11: GetValue() records as N_valid the number of samples whose
\* transformed point lies inside every channel's buffer and returns the sum
\* of squared channel differences over those samples divided by N_valid*K;
\* with no such sample it returns 0.0 and records 0; the value is never
\* negative.
C11_ValueAndValidCount ==
    ev.op = "GetValue" =>
        LET V == ValidSamples(ev)
            N == Cardinality(V)
            total == SumOver(V \X (1..ev.numChannels), ev)
        IN  /\ ev.result = "returned"
            /\ ev.m_NumberOfValidSamples = N
            /\ ev.out.value = ev.m_CurrentValue
            /\ N = 0 => ev.out.value = 0
            /\ N > 0 => ev.out.value = TDiv(total * Den, N * ev.numChannels)
            /\ ev.out.value >= 0

\* two channels, one of two samples outside the buffer, a positive value
C11_Witness ==
    /\ ev.op = "GetValue"
    /\ ev.numChannels = 2
    /\ Len(ev.m_SamplePoints) = 2
    /\ ev.m_NumberOfValidSamples = 1
    /\ ev.out.value > 0
    /\ ev.m_Transform # 0

\* the valid sample indices in increasing order
RECURSIVE Ascending(_)
Ascending(S) ==
    IF S = {} THEN <<>>
    ELSE LET least == CHOOSE i \in S : \A j \in S : i <= j
         IN  <<least>> \o Ascending(S \ {least})

\* C12: GetResiduals() lists, for each valid sample in sample order and each
\* channel in channel order, fixed - moving, N_valid*K entries in all, and
\* GetJacobian() returns one row per residual in that order, row (s, k)
\* being minus the gradient of the moving bundle's channel k at T(x_s) times
\* dT/dq at x_s.
C12_ResidualAndJacobianOrder ==
    LET order == Ascending(ValidSamples(ev))
        K == ev.numChannels
        sampleOf(j) == order[((j - 1) \div K) + 1]
        channelOf(j) == ((j - 1) % K) + 1
    IN  /\ ev.op = "GetResiduals" =>
              /\ Len(ev.out.residuals) = Len(order) * K
              /\ ev.m_NumberOfValidSamples = Len(order)
              /\ \A j \in 1..Len(ev.out.residuals) :
                     ev.out.residuals[j] = Difference(ev, sampleOf(j), channelOf(j))
        /\ (ev.op = "GetJacobian" /\ ev.result = "returned") =>
              /\ Len(ev.out.jacobian) = Len(order) * K
              /\ \A j \in 1..Len(ev.out.jacobian) :
                     ev.out.jacobian[j] =
                         << -(MovingGradientAt(ev.m_MovingMINDFeatures, channelOf(j),
                                 TransformPoint(ev.m_Transform,
                                     ev.m_SamplePoints[sampleOf(j)].fixedPoint))
                              * TransformJacobian(ev.m_JacobianFunction,
                                     ev.m_SamplePoints[sampleOf(j)].fixedPoint)) >>


-----------------------------------------------------------------------------
(* Claims about ConfigManager *)

\* the spellings, in lower case, of the values of an enumerated key
EnumSpellings(key) ==
    CASE key = "transformType" ->
             { <<"r", "i", "g", "i", "d">>, <<"a", "f", "f", "i", "n", "e">>,
               <<"r", "i", "g", "i", "d", "t", "h", "e", "n", "a", "f", "f", "i", "n", "e">>,
               <<"r", "i", "g", "i", "d", "+", "a", "f", "f", "i", "n", "e">>,
               <<"r", "i", "g", "i", "d", "a", "f", "f", "i", "n", "e">> }
      [] key = "metricType" ->
             { <<"m", "a", "t", "t", "e", "s", "m", "u", "t", "u", "a", "l",
                 "i", "n", "f", "o", "r", "m", "a", "t", "i", "o", "n">>,
               <<"m", "i", "n", "d">>,
               <<"m", "i", "n", "d", "d", "e", "s", "c", "r", "i", "p", "t", "o", "r">> }
      [] OTHER ->
             { <<"r", "e", "g", "u", "l", "a", "r", "s", "t", "e", "p",
                 "g", "r", "a", "d", "i", "e", "n", "t", "d", "e", "s", "c", "e", "n", "t">>,
               <<"g", "a", "u", "s", "s", "n", "e", "w", "t", "o", "n">>,
               <<"g", "a", "u", "s", "s", "-", "n", "e", "w", "t", "o", "n">>,
               <<"g", "n">>, <<"l", "m">>,
               <<"l", "e", "v", "e", "n", "b", "e", "r", "g",
                 "m", "a", "r", "q", "u", "a", "r", "d", "t">>,
               <<"l", "e", "v", "e", "n", "b", "e", "r", "g", "-",
                 "m", "a", "r", "q", "u", "a", "r", "d", "t">> }

EnumKeys == {"transformType", "metricType", "optimizerType"}

UnknownEnumValue(file) ==
    \E key \in EnumKeys :
        /\ file[key].kind = "scalar"
        /\ LowerOf(Trim(file[key].text)) \notin EnumSpellings(key)

\* C14: LoadFromFile returns failure when transformType, metricType or
\* optimizerType holds a string that is not a recognized enumerated value;
\* an unknown value is never silently mapped to a default.
C14_UnknownEnumRejected ==
    (cm.opened /\ UnknownEnumValue(cm.file)) => ~cm.success

\* C15: after a successful LoadFromFile the configuration satisfies
\* len(shrinkFactors) = len(smoothingSigmas) = numberOfLevels; a file whose
\* array lengths do not conform to numberOfLevels is a configuration error.
C15_LevelArraysConform ==
    (cm.opened /\ cm.success) =>
        /\ Len(cm.m_Config.shrinkFactors) = cm.m_Config.numberOfLevels
        /\ Len(cm.m_Config.smoothingSigmas) = cm.m_Config.numberOfLevels

NumericKeys ==
    {"mindRadius", "learningRate", "numberOfIterations", "numberOfLevels",
     "shrinkFactors", "smoothingSigmas"}

\* the characters of a number: digits, after optional white space
IsNumber(str) ==
    LET text == Trim(str)
    IN  text # <<>> /\ \A i \in 1..Len(text) : IsDigit(text[i])

\* the key is present in the file with a value that is not a number
NotANumber(file, key) ==
    \/ file[key].kind = "scalar" /\ ~IsNumber(file[key].text)
    \/ /\ file[key].kind = "array"
       /\ \E i \in 1..Len(file[key].items) : ~IsNumber(file[key].items[i])

\* C16: a numeric key (learningRate and numberOfIterations as a scalar or an
\* array included) present with a value that does not parse as a number
\* makes LoadFromFile return failure; unknown keys are ignored, and absent
\* keys keep the value they had.
C16_InvalidNumberRejected ==
    cm.opened =>
        /\ (\E key \in NumericKeys : NotANumber(cm.file, key)) => ~cm.success
        /\ \A key \in NumericKeys :
               cm.file[key] = Absent => cm.m_Config[key] = cm.before[key]
        /\ ParseJsonFile(cm.before, [cm.file EXCEPT !["_comment"] = Absent])
               = [config |-> cm.m_Config, ok |-> cm.success]

-----------------------------------------------------------------------------
(* Claims about sampling *)

\* C17: with a fixed seed and random (non-stratified) sampling, every
\* Initialize(), the first or a later one, leaves the sample sequence drawn
\* from a generator freshly seeded with randomSeed.
C17_SamplesFollowSeed ==
    (smp.op = "Initialize" /\ smp.m_UseFixedSeed /\ ~smp.m_UseStratifiedSampling) =>
        smp.m_SamplePoints =
            SampleFixedImageRandom([seed |-> smp.m_RandomSeed, drawn |-> 0]).points

-----------------------------------------------------------------------------
(* Claims about the observer *)

\* the iterations of the finished run at which the loop is to call the
\* observer: the multiples of the interval among the iterations run
IntervalIterations ==
    {i \in 0..(obs.steps - 1) : i % cfg.m_ObserverIterationInterval = 0}

\* C18: with an observer set, a run calls it at iteration 0, at every
\* iteration that is a multiple of the observer interval and at no other
\* iteration, and once more at exit, each time with (iteration, current
\* cost, step length).
C18_ObserverSchedule ==
    (pc = "done" /\ cfg.m_Observer /\ ~obs.threw) =>
        LET log == obs.observed
            n == Len(log)
        IN  /\ n = Cardinality(IntervalIterations) + 1
            /\ {log[k][1] : k \in 1..(n - 1)} = IntervalIterations
            /\ \A j, k \in 1..(n - 1) : j < k => log[j][1] < log[k][1]
            /\ log[n] = <<opt.m_CurrentIteration, opt.m_CurrentValue,
                          opt.m_CurrentStepLength>>

-----------------------------------------------------------------------------
(* Claims about the optimizer's two modes *)

BothProvided == cfg.callbacks.residual /\ cfg.callbacks.jacobian

\* what StartOptimization needs: cost, get and set, and one mode's callbacks
Startable ==
    /\ cfg.callbacks.cost /\ cfg.callbacks.get /\ cfg.callbacks.set
    /\ (BothProvided \/ cfg.callbacks.gradient)

FallbackStops == {"MAXIMUM_ITERATIONS", "STEP_TOO_SMALL", "GRADIENT_TOO_SMALL"}

\* C19: the steepest-descent step is the one used exactly when the residual
\* and Jacobian callbacks are not both provided; a fallback run ends only in
\* MaxIterations, StepTooSmall or GradientTooSmall, the last with the
\* gradient below a positive tolerance and the parameters unchanged; a
\* Gauss-Newton run never ends in GradientTooSmall; and StartOptimization
\* throws, leaving the optimizer and the parameters as they were, exactly
\* when cost, get or set is missing or neither mode's callbacks are set.
C19_ModeSelection ==
    /\ [](pc \in {"loop", "exit", "done"} =>
             /\ ~BothProvided => opt.m_StopCondition \in FallbackStops
             /\ BothProvided => opt.m_StopCondition # "GRADIENT_TOO_SMALL")
    /\ [][ /\ StepTaken =>
                /\ IterateGradientDescent <=> ~BothProvided
                /\ IterateGaussNewton <=> BothProvided
           /\ (StepTaken /\ opt'.m_StopCondition = "GRADIENT_TOO_SMALL") =>
                /\ params' = params
                /\ cfg.m_GradientMagnitudeTolerance > 0
           /\ obs'.run = obs.run + 1 =>
                /\ obs'.threw <=> ~Startable
                /\ obs'.threw => UNCHANGED <<pc, opt, params>> ]_vars

\* a run in fallback mode, with a residual callback but no Jacobian callback,
\* has ended in GradientTooSmall
C19_Witness ==
    /\ pc = "done"
    /\ cfg.callbacks.residual /\ ~cfg.callbacks.jacobian
    /\ opt.m_StopCondition = "GRADIENT_TOO_SMALL"
    /\ obs.steps > 0

-----------------------------------------------------------------------------
(* Claims about SolveNormalEquations *)

\* the factorization, or the one retry, fails, or the solution is not finite
SolveFails(report) ==
    report \in {"numerical_issue", "indefinite_twice", "non_finite"}

-----------------------------------------------------------------------------
(* Claims about the damping factor and about repeated runs *)

\* the damping factor lies in [1e-10, 1e6]
DampingInRange(d) ==
    CASE d.base = "init"  -> d.exp \in -23..29
      [] d.base = "floor" -> d.exp \in 0..53
      [] OTHER            -> d.exp \in -53..0

\* half of d, but not less than 1e-10
HalfOrFloor(d) ==
    IF DampingInRange([d EXCEPT !.exp = d.exp - 1])
    THEN [d EXCEPT !.exp = d.exp - 1] ELSE [base |-> "floor", exp |-> 0]

\* twice d, but not more than 1e6
TwiceOrCeiling(d) ==
    IF DampingInRange([d EXCEPT !.exp = d.exp + 1])
    THEN [d EXCEPT !.exp = d.exp + 1] ELSE [base |-> "ceil", exp |-> 0]

EarlyStops ==
    {"empty_residuals", "invalid_jacobian", "solve_failed", "update_too_small"}

\* C24: with Levenberg-Marquardt enabled a Gauss-Newton step halves the
\* damping factor (floor 1e-10) when it is accepted, doubles it (ceiling
\* 1e6) when it is rejected and leaves it alone when it stops early; the
\* factor stays in [1e-10, 1e6]; with LM disabled it never changes.
C24_DampingSchedule ==
    /\ [] DampingInRange(opt.m_DampingFactor)
    /\ [][ /\ ~cfg.m_UseLevenbergMarquardt =>
                opt'.m_DampingFactor = opt.m_DampingFactor
           /\ (StepTaken /\ BothProvided /\ cfg.m_UseLevenbergMarquardt) =>
                /\ obs'.outcome = "accepted" =>
                       opt'.m_DampingFactor = HalfOrFloor(opt.m_DampingFactor)
                /\ obs'.outcome = "rejected" =>
                       opt'.m_DampingFactor = TwiceOrCeiling(opt.m_DampingFactor)
                /\ obs'.outcome \in EarlyStops =>
                       opt'.m_DampingFactor = opt.m_DampingFactor ]_vars

\* a second accepted step has left the damping factor at its floor
C24_Witness ==
    /\ cfg.m_UseLevenbergMarquardt /\ BothProvided
    /\ obs.steps >= 2
    /\ obs.outcome = "accepted"
    /\ opt.m_DampingFactor = [base |-> "floor", exp |-> 0]

\* C29: every run starts with the iteration counter at 0, the step length
\* at the learning rate, the best cost at the initial cost and the stop
\* condition at MaxIterations, and with the damping factor the previous run
\* left.
C29_RunInitialisation ==
    [][ (obs'.run = obs.run + 1 /\ ~obs'.threw) =>
            /\ opt'.m_CurrentIteration = 0
            /\ opt'.m_CurrentStepLength = cfg.m_LearningRate
            /\ opt'.m_BestValue = CostAt(cfg.costShape, params)
            /\ opt'.m_StopCondition = "MAXIMUM_ITERATIONS"
            /\ opt'.m_DampingFactor = opt.m_DampingFactor ]_vars

\* a second run has started with a damping factor that the first run moved
C29_Witness ==
    /\ obs.run = 2 /\ ~obs.threw
    /\ obs.steps = 0 /\ pc = "loop"
    /\ opt.m_DampingFactor \notin DampingStarts
    /\ opt.m_CurrentIteration = 0

-----------------------------------------------------------------------------
(* Claims about LineSearch.  A searched step has parameters q = params, the *)
(* update obs'.ls.direction and tries the points q - alpha * update.        *)

\* cost(q - alpha * update) <= cost(q) + c * alpha * slope, c = 1e-4, with
\* slope in units of 1 / Den^2
SufficientDecrease(q, update, alpha, slope) ==
    (CostAt(cfg.costShape, <<q[1] - Mul(alpha, update)>>) - CostAt(cfg.costShape, q))
        * Den * Den * 10000 <= alpha * slope

\* alpha_0 = 1, alpha_(k+1) = s * alpha_k
RECURSIVE ShrunkAlpha(_)
ShrunkAlpha(k) ==
    IF k = 0 THEN Den ELSE Mul(ShrunkAlpha(k - 1), cfg.m_LineSearchShrinkFactor)

\* C22: LineSearch returns 0.1 without evaluating the cost exactly when
\* g . (-update) >= 0, g being the cost gradient; otherwise it returns the
\* first alpha of 1, s, s^2, ... with
\* cost(q - alpha * update) <= cost(q) + 1e-4 * alpha * (g . (-update)).
C22_LineSearchArmijo ==
    [][ (StepTaken /\ obs'.ls.made /\ cfg.callbacks.gradient) =>
            LET update == obs'.ls.direction
                slope == obs'.ls.gradient * (-update)
                k == obs'.evals - 1
            IN  /\ (obs'.evals = 0 /\ obs'.alpha = Den \div 10) <=> slope >= 0
                /\ slope < 0 =>
                       /\ obs'.evals >= 1
                       /\ obs'.alpha = ShrunkAlpha(k)
                       /\ SufficientDecrease(params, update, obs'.alpha, slope)
                       /\ \A j \in 0..(k - 1) :
                              ~SufficientDecrease(params, update, ShrunkAlpha(j), slope)
      ]_vars

\* C23: with line search on and no gradient callback the Armijo test uses
\* g = J^T f of the current residuals and Jacobian, so an update that
\* descends along that gradient is backtracked from alpha = 1.
C23_LineSearchUsesJtf ==
    [][ (StepTaken /\ obs'.ls.made /\ ~cfg.callbacks.gradient) =>
            /\ obs'.ls.gradient = obs'.ls.jtf
            /\ obs'.ls.jtf * (-obs'.ls.direction) < 0 => obs'.evals >= 1
      ]_vars

-----------------------------------------------------------------------------
(* Claims about the coherence of the cached bundles, under SpecMIND *)

\* the bundle has the channels of the selected neighbourhood and was
\* computed from the image with the current radius
Coherent(bundle, image) ==
    /\ bundle.k = (IF mind.m_NeighborhoodType = "SixConnected" THEN 6 ELSE 26)
    /\ bundle.image = image
    /\ bundle.radius = mind.m_MINDRadius

\* C26: whenever Initialize() has just returned, after any sequence of the
\* setters, ResetCache and Initialize, the fixed bundle, the moving bundle
\* and the moving gradients have K channels for the selected neighbourhood
\* and were computed from the bound images with the current radius.
C26_CacheCoherence ==
    (mobs.op = "Initialize" /\ mobs.result = "returned") =>
        /\ Coherent(mind.m_FixedMINDFeatures, mind.m_FixedImage)
        /\ Coherent(mind.m_MovingMINDFeatures, mind.m_MovingImage)
        /\ Coherent(mind.m_MovingMINDFeatureGradients, mind.m_MovingImage)

\* C27: after ReinitializeSampling() returns on an initialised metric, the
\* interpolators that the evaluations use are over the moving bundle it has
\* just recomputed, and the gradient interpolators over the gradients of
\* that bundle.
C27_InterpolatorsFollowBundle ==
    (mobs.op = "ReinitializeSampling" /\ mobs.result = "returned"
         /\ mobs.initialized) =>
        /\ mind.m_MovingMINDInterpolators = mind.m_MovingMINDFeatures
        /\ mind.m_MovingMINDFeatureGradients = mind.m_MovingMINDFeatures
        /\ mind.m_MovingMINDFeatureGradientInterpolators = mind.m_MovingMINDFeatures

-----------------------------------------------------------------------------
(* Claims about a failed load, under SpecConf *)

\* C30: when LoadFromFile fails, because the file cannot be opened or a
\* value fails to parse, the configuration record is as it was before the
\* call.
C30_FailedLoadKeepsConfig ==
    (cm.loads > 0 /\ ~cm.success) => cm.m_Config = cm.before

-----------------------------------------------------------------------------
(* Properties of the sample geometry, checked under SpecGeometry *)

\* the least s with s^3 >= total / target
CubeRootCeiling(total, target) ==
    LET roots == {s \in 0..WordMax : s * s * s * target >= total}
    IN  CHOOSE s \in roots : \A t \in roots : s <= t

\* an index with pad <= i < size - pad exists on every axis
InteriorExists ==
    \A a \in 1..3 : lat.size[a] - Padding(lat.m_MINDRadius)
                         > Padding(lat.m_MINDRadius)

\* C21: after stratified sampling of a volume that has interior indices,
\* with a positive target, the lattice step
\* is the cube root of total_voxels / target_samples rounded up, every
\* index is the pad plus a multiple of the step, and at most target_samples
\* points are kept.
C21_StratifiedLattice ==
    LET total == TotalVoxels(lat.size)
        target == TargetSamples(lat.size, lat.m_SamplingPercentage)
        pad == Padding(lat.m_MINDRadius)
    IN  (lat.op = "SampleFixedImageStratified" /\ InteriorExists
             /\ target > 0) =>
            /\ lat.step = CubeRootCeiling(total, target)
            /\ Len(lat.m_SamplePoints) <= target
            /\ \A i \in 1..Len(lat.m_SamplePoints) : \A a \in 1..3 :
                   /\ lat.m_SamplePoints[i][a] >= pad
                   /\ (lat.m_SamplePoints[i][a] - pad) % lat.step = 0

\* C28: after stratified or random sampling every sample index lies in
\* pad <= i < size - pad on each axis, and the sample set is empty when no
\* such index exists.
C28_SamplesInsideVolume ==
    lat.op # "none" =>
        /\ \A i \in 1..Len(lat.m_SamplePoints) : \A a \in 1..3 :
               /\ Padding(lat.m_MINDRadius) <= lat.m_SamplePoints[i][a]
               /\ lat.m_SamplePoints[i][a]
                      < lat.size[a] - Padding(lat.m_MINDRadius)
        /\ ~InteriorExists => lat.m_SamplePoints = << >>

-----------------------------------------------------------------------------
(* Properties of the parallel sample loops, checked under SpecParallel *)

\* the threads whose chunk holds sample i
Owners(i) == {w \in DOMAIN par.worker :
                 par.worker[w].lo <= i /\ i <= par.worker[w].hi}

InCritical == {w \in DOMAIN par.worker : par.worker[w].pc = "critical"}

C25_Always ==
    /\ \A i \in 1..Len(par.samples) :
           /\ Cardinality(Owners(i)) = 1
           /\ par.processed[i] <= 1
    /\ Cardinality(InCritical) <= 1
    /\ par.pc = "done" =>
           /\ \A i \in 1..Len(par.samples) : par.processed[i] = 1
           /\ par.localDerivative = SequentialSum(par.samples)
           /\ par.validSamples = SequentialValid(par.samples)

C25_Step ==
    (par.pc = "parallel" /\ par'.pc = "parallel") =>
        \E w \in DOMAIN par.worker :
            /\ \A v \in DOMAIN par.worker \ {w} :
                   par'.worker[v] = par.worker[v]
            /\ (\/ par'.localDerivative # par.localDerivative
                \/ par'.validSamples # par.validSamples)
                   => par.worker[w].pc = "critical"

\* C25: for every static split of the samples among the threads and every
\* interleaving, each sample belongs to one thread and is processed once,
\* a step of a thread changes no other thread's accumulators and changes
\* the shared sums only from inside the critical section, at most one
\* thread is inside it, and after the join the shared sum and valid count
\* equal those of the serial loop.
C25_ParallelEqualsSequential == []C25_Always /\ [][C25_Step]_vars

\* two threads, each with a valid sample of its own, have merged and joined
C25_Witness ==
    /\ par.pc = "done"
    /\ par.op = "ComputeAnalyticalGradient"
    /\ DOMAIN par.worker = 1..2
    /\ \A w \in 1..2 : par.worker[w].threadValidSamples >= 1

=============================================================================
